---- MODULE Spec2Model ----
(***************************************************************************)
(* State-machine model of the admaren-app map surface:                     *)
(*   - WindyWeatherService (weather provider, simulated and remote path),  *)
(*   - GridMapComponent    (grid-only selection, resets after each pair),  *)
(*   - MapComponent        (map-embedded selection, particle engine,       *)
(*                          route renderer),                               *)
(*   - AppsContentComponent (routes a completed selection to the map).     *)
(*                                                                         *)
(* Numbers.  JavaScript numbers are modelled in fixed point: every real    *)
(* quantity (degrees, m/s, Celsius, Pa, percent) is an integer count of    *)
(* thousandths.  A value returned by Math.random() is an integer r in      *)
(* 0..999 standing for r/1000.  Math.sin is tabulated, rounded to the      *)
(* nearest thousandth, at the coordinates the model queries.               *)
(***************************************************************************)
EXTENDS Integers, Sequences, FiniteSets, TLC

VARIABLES
  apiKey,      \* WindyWeatherService.apiKey
  http,        \* HTTP requests in flight: sequence of [sub, lat, lon, stalled]
  wxCall,      \* the latest getWeatherData call of a stand-alone subscriber
  wxReceived,  \* notifications that subscriber received for wxCall
  wxLog        \* the simulator's last evaluations: [lat, lon, rnd, sample]

VARIABLES
  component,   \* which selection component the page hosts
  gridMap,     \* GridMapComponent: [selectedCoordinates, selectionMode]
  gridOutput,  \* the latest GridMapComponent call and the events it emitted
  gridStart,   \* GridMapComponent state before that call
  gridLoop     \* a run of generateGrid: its component, loop variables and cells

VARIABLES
  evaluated    \* the latest call of a pure function and the results seen so far

VARIABLES
  mapMode,       \* the input signal mapMode of MapComponent
  effectPending, \* the effect of the constructor is scheduled to run
  mc,            \* the fields of MapComponent
  browser,       \* animation frames, canvases, loop closures and timers
  mapOutput      \* the latest step of the map and the events it emitted

wxVars == <<apiKey, http, wxCall, wxReceived, wxLog>>

gridVars == <<gridMap, gridOutput, gridStart, gridLoop>>

mapVars == <<mapMode, effectPending, mc, browser, mapOutput>>

vars == <<wxVars, component, gridVars, mapVars, evaluated>>

-----------------------------------------------------------------------------
(* Arithmetic of the host language                                         *)

Abs(x) == IF x < 0 THEN -x ELSE x

Min(a, b) == IF a <= b THEN a ELSE b

Max(a, b) == IF a >= b THEN a ELSE b

\* JavaScript's % : the remainder takes the sign of the dividend.
JsRem(a, b) == IF a >= 0 THEN a % b ELSE -((-a) % b)

\* Math.round(x * 1000 / unit) * unit / 1000 on thousandths: to the nearest
\* multiple of unit, halves towards +infinity.
JsRound(x, unit) == ((2 * x + unit) \div (2 * unit)) * unit

\* Math.sin(lat * Math.PI / 180), in thousandths.
SinDeg(lat) ==
  ( -85 :> -996 @@ -75 :> -966 @@ -65 :> -906 @@ -55 :> -819 @@ -45 :> -707 @@
    -35 :> -574 @@ -25 :> -423 @@ -15 :> -259 @@ -5 :> -87 @@ 0 :> 0 @@
    5 :> 87 @@ 15 :> 259 @@ 20 :> 342 @@ 25 :> 423 @@ 35 :> 574 @@ 45 :> 707 @@
    55 :> 819 @@ 65 :> 906 @@ 75 :> 966 @@ 85 :> 996 )[lat]

\* Math.sin(lon * 0.1), in thousandths.
SinTenth(lon) ==
  ( -175 :> 976 @@ -165 :> 712 @@ -155 :> -206 @@ -145 :> -935 @@
    -135 :> -804 @@ -125 :> 66 @@ -115 :> 875 @@ -105 :> 880 @@ -95 :> 75 @@
    -85 :> -798 @@ -75 :> -938 @@ -65 :> -215 @@ -55 :> 706 @@ -45 :> 978 @@
    -35 :> 351 @@ -25 :> -598 @@ -15 :> -997 @@ -5 :> -479 @@ 0 :> 0 @@
    5 :> 479 @@ 15 :> 997 @@ 25 :> 598 @@ 35 :> -351 @@ 45 :> -978 @@
    55 :> -706 @@ 65 :> 215 @@ 75 :> 938 @@ 85 :> 798 @@ 95 :> -75 @@
    105 :> -880 @@ 115 :> -875 @@ 125 :> -66 @@ 135 :> 804 @@ 145 :> 935 @@
    155 :> 206 @@ 165 :> -712 @@ 175 :> -976 )[lon]

\* Math.atan2(u, v) * 180 / Math.PI in thousandths of a degree, for the wind
\* vectors of the modelled responses (on an axis or a diagonal).
Atan2Deg(u, v) ==
  CASE u = 0 /\ v >= 0 -> 0
    [] u = 0 /\ v < 0  -> 180000
    [] u > 0 /\ v = 0  -> 90000
    [] u < 0 /\ v = 0  -> -90000
    [] u > 0 /\ v > 0  -> 45000
    [] u > 0 /\ v < 0  -> 135000
    [] u < 0 /\ v > 0  -> -45000
    [] u < 0 /\ v < 0  -> -135000

\* Math.sqrt(u * u + v * v) for the same vectors.
Hypot(u, v) ==
  IF u = 0 THEN Abs(v)
  ELSE IF v = 0 THEN Abs(u)
  ELSE (Abs(u) * 1414) \div 1000

-----------------------------------------------------------------------------
(* WindyWeatherService                                                     *)

Placeholder == "YOUR_WINDY_API_KEY"

\* The values drawn from Math.random() by one call of the simulator, in the
\* order of the calls: temperature, wind speed, wind direction, humidity,
\* pressure, gust.
NoNoise == [temp |-> 500, wind |-> 500, dir |-> 0, rh |-> 500, pressure |-> 500, gust |-> 0]

LowDraw == [temp |-> 0, wind |-> 0, dir |-> 0, rh |-> 0, pressure |-> 0, gust |-> 0]

HighDraw == [temp |-> 999, wind |-> 999, dir |-> 999, rh |-> 999, pressure |-> 999, gust |-> 999]

RandomDraws == {NoNoise, LowDraw, HighDraw}

\* Coordinates queried: grid-cell centres, the origin and the map's initial
\* centre (20, 0).
QueryLats == {-85, 0, 20}

QueryLons == {-175, 0, 175}

SimTemperature(lat, lon, r) ==
  LET baseTemp == 20000 - Abs(lat) * 500
  IN  baseTemp + SinTenth(lon) * 8 + (r - 500) * 5

SimWindSpeedUncentred(lat, r) ==
  LET baseWindSpeed == Abs(SinDeg(lat)) * 15 + 3000
  IN  baseWindSpeed + r * 5

SimWindSpeed(lat, r) ==
  LET baseWindSpeed == Abs(SinDeg(lat)) * 15 + 3000
  IN  baseWindSpeed + (r - 500) * 5

SimWindDirection(lat, lon, r) ==
  JsRem(lon * 2000 + lat * 1000 + r * 360, 360000)

SimHumidity(lat, r) ==
  LET baseRH == 60000 - Abs(lat) * 300
  IN  Max(30000, Min(95000, baseRH + (r - 500) * 20))

SimPressure(lat, r) ==
  LET basePressure == 101325000 + SinDeg(lat) * 1000
  IN  basePressure + (r - 500) * 500

SimGust(windSpeed, r) == (windSpeed * (3000 + r)) \div 2000

\* generateSimulatedWeatherData.  wind.u and wind.v (speed times the sine and
\* cosine of the direction) are left out: no component reads them.
GenerateSimulatedWeatherData(lat, lon, rnd) ==
  LET temp      == SimTemperature(lat, lon, rnd.temp)
      windSpeed == SimWindSpeed(lat, rnd.wind)
      direction == SimWindDirection(lat, lon, rnd.dir)
      rh        == SimHumidity(lat, rnd.rh)
      pressure  == SimPressure(lat, rnd.pressure)
      gust      == SimGust(windSpeed, rnd.gust)
  IN  [ wind     |-> [speed |-> windSpeed, direction |-> direction],
        temp     |-> JsRound(temp, 100),
        rh       |-> JsRound(rh, 1000),
        pressure |-> JsRound(pressure, 1000),
        gust     |-> JsRound(gust, 100) ]

\* A response body: null, or an object whose members are arrays of rows
\* (an absent member is the empty array).
NullResponse == [isNull |-> TRUE]

Body(wind, temp, rh, pressure, gust) ==
  [isNull |-> FALSE, wind |-> wind, temp |-> temp, rh |-> rh,
   pressure |-> pressure, gust |-> gust]

Responses ==
  { NullResponse,
    Body(<<>>, <<>>, <<>>, <<>>, <<>>),
    Body(<< <<0, -7000>> >>, << <<0>> >>, << <<40000>> >>, << <<100900000>> >>, <<>>),
    Body(<< <<7000, 0>> >>, << <<-3500>> >>, << <<55000>> >>, << <<101200000>> >>, << <<9000>> >>),
    Body(<< <<-5000, -5000>> >>, << <<21000>> >>, << <<80000>> >>, << <<99000000>> >>, << <<12000>> >>),
    Body(<< <<5000, -5000>> >>, << <<30000>> >>, << <<20000>> >>, << <<102800000>> >>, << <<6000>> >>),
    Body(<< <<-4000>> >>, << <<12000>> >>, << <<>> >>, << <<101325000>> >>, << <<>> >>) }

\* a?.[i] on an array: the one-element sequence of the element, or <<>> for
\* undefined.  (Indices are 0-based in the source.)
At(arr, i) == IF Len(arr) > i THEN <<arr[i + 1]>> ELSE <<>>

\* (x || d) on a number that may be undefined: 0 and undefined are falsy.
OrElse(opt, d) == IF opt = <<>> THEN d ELSE IF opt[1] = 0 THEN d ELSE opt[1]

\* (row?.[0] || d) on a row that may be undefined.
FirstOr(optRow, d) == IF optRow = <<>> THEN d ELSE OrElse(At(optRow[1], 0), d)

\* parseWindyResponse throws a TypeError exactly when the body is null.
ParseThrows(response) == response.isNull

ParseDirection(u, v) == JsRem(Atan2Deg(u, v) + 180000, 360000)

ParseWindyResponse(response) ==
  LET windRow       == At(response.wind, 0)
      windData      == IF windRow = <<>> THEN <<0, 0>> ELSE windRow[1]
      tempValue     == FirstOr(At(response.temp, 0), 15000)
      rhValue       == FirstOr(At(response.rh, 0), 50000)
      pressureValue == FirstOr(At(response.pressure, 0), 101325000)
      gustValue     == FirstOr(At(response.gust, 0), 0)
      u             == OrElse(At(windData, 0), 0)
      v             == OrElse(At(windData, 1), 0)
  IN  [ wind     |-> [speed |-> Hypot(u, v), direction |-> ParseDirection(u, v),
                      u |-> u, v |-> v],
        temp     |-> tempValue,
        rh       |-> rhValue,
        pressure |-> pressureValue,
        gust     |-> gustValue ]

\* Notifications an Observable delivers to its subscriber.
NextOf(sample, path) == [kind |-> "next", value |-> sample, path |-> path]

ErrorOf(cause) == [kind |-> "error", cause |-> cause]

\* catchError(error => of(generateSimulatedWeatherData(lat, lon)))
CatchErrorRethrows(lat, lon, rnd, cause) == ErrorOf(cause)

CatchError(lat, lon, rnd, cause) ==
  NextOf(GenerateSimulatedWeatherData(lat, lon, rnd), "simulated")

\* What the pipe map(parse), catchError(...) delivers for an outcome of the
\* HTTP request: [kind |-> "response", body |-> b] or [kind |-> "failure"].
PipeOutcome(outcome, lat, lon, rnd) ==
  IF outcome.kind = "failure"
    THEN CatchError(lat, lon, rnd, "http")
  ELSE IF ParseThrows(outcome.body)
    THEN CatchError(lat, lon, rnd, "parse")
  ELSE NextOf(ParseWindyResponse(outcome.body), "remote")

HttpOutcomes ==
  {[kind |-> "failure"]} \cup {[kind |-> "response", body |-> b] : b \in Responses}

\* getWeatherData with the placeholder key answers synchronously.
IsSynchronous(key) == key = Placeholder

-----------------------------------------------------------------------------
(* Grid model                                                              *)

gridRows == 18

gridCols == 36

latStep == 10

lonStep == 10

\* null for a GridCell
NullCell == [id |-> 0, lat |-> 0, lon |-> 0, row |-> 0, col |-> 0]

\* Math.round(x * 100) / 100 of a whole number of degrees
RoundCenti(x) == (JsRound(x * 100 * 1000, 1000) \div 1000) \div 100

\* generateGrid: the cells in the order they are pushed.  The inner loop
\* `for col`, with the running id:
RECURSIVE GenerateRowFrom(_, _, _)
GenerateRowFrom(row, col, id) ==
  IF col >= gridCols THEN <<>>
  ELSE LET lat == 90 - (row * latStep + latStep \div 2)
           lon == -180 + (col * lonStep + lonStep \div 2)
           cell == [id |-> id, lat |-> RoundCenti(lat), lon |-> RoundCenti(lon),
                    row |-> row, col |-> col]
       IN  <<cell>> \o GenerateRowFrom(row, col + 1, id + 1)

\* the outer loop `for row`; the id runs on by the number of cells pushed.
RECURSIVE GenerateGridFrom(_, _)
GenerateGridFrom(row, id) ==
  IF row >= gridRows THEN <<>>
  ELSE LET cells == GenerateRowFrom(row, 0, id)
       IN  cells \o GenerateGridFrom(row + 1, id + Len(cells))

GenerateGrid == GenerateGridFrom(0, 1)

gridCells == GenerateGrid

\* generateGrid step by step.  No run: component "none".  A run holds the
\* local cells and id, the loop variables row and col, and whether
\* this.gridCells.set(cells) has been reached.
NoGridLoop ==
  [component |-> "none", row |-> 0, col |-> 0, id |-> 1, cells |-> <<>>, set |-> FALSE]

\* The cell pushed by the loop body of MapComponent.generateGrid
MapGridCell(row, col, id) ==
  LET lat == 90 - (row * latStep + latStep \div 2)
      lon == -180 + (col * lonStep + lonStep \div 2)
  IN  [id |-> id, lat |-> RoundCenti(lat), lon |-> RoundCenti(lon),
       row |-> row, col |-> col]

\* The cell pushed by the loop body of GridMapComponent.generateGrid
GridMapGridCell(row, col, id) ==
  LET lat == 90 - (row * latStep + latStep \div 2)
      lon == -180 + (col * lonStep + lonStep \div 2)
  IN  [id |-> id, lat |-> RoundCenti(lat), lon |-> RoundCenti(lon),
       row |-> row, col |-> col]

\* The loop body with the cell centred on the lower edge of its band
PushCellOffCentre(loop) ==
  [loop EXCEPT !.cells = Append(@, [id |-> loop.id,
                                    lat |-> RoundCenti(90 - loop.row * latStep),
                                    lon |-> RoundCenti(-180 + loop.col * lonStep),
                                    row |-> loop.row, col |-> loop.col]),
               !.id = @ + 1,
               !.col = IF loop.col + 1 < gridCols THEN @ + 1 ELSE 0,
               !.row = IF loop.col + 1 < gridCols THEN @ ELSE @ + 1]

\* One round of the inner loop: cells.push(...), id++, col++; when the
\* inner loop ends, row++ and col starts at 0 again.
PushCell(loop) ==
  LET cell == IF loop.component = "map"
                THEN MapGridCell(loop.row, loop.col, loop.id)
                ELSE GridMapGridCell(loop.row, loop.col, loop.id)
  IN  [loop EXCEPT !.cells = Append(@, cell),
                   !.id = @ + 1,
                   !.col = IF loop.col + 1 < gridCols THEN @ + 1 ELSE 0,
                   !.row = IF loop.col + 1 < gridCols THEN @ ELSE @ + 1]

\* ngOnInit of the component calls generateGrid: const cells = [], id = 1
GenerateGridBegin(c) ==
  /\ gridLoop.component = "none"
  /\ gridLoop' = [NoGridLoop EXCEPT !.component = c]
  /\ UNCHANGED <<wxVars, component, gridMap, gridOutput, gridStart, mapVars, evaluated>>

GenerateGridPush ==
  /\ gridLoop.component # "none"
  /\ gridLoop.row < gridRows
  /\ gridLoop' = PushCell(gridLoop)
  /\ UNCHANGED <<wxVars, component, gridMap, gridOutput, gridStart, mapVars, evaluated>>

\* this.gridCells.set(cells)
GenerateGridSet ==
  /\ gridLoop.component # "none"
  /\ gridLoop.row >= gridRows
  /\ ~gridLoop.set
  /\ gridLoop' = [gridLoop EXCEPT !.set = TRUE]
  /\ UNCHANGED <<wxVars, component, gridMap, gridOutput, gridStart, mapVars, evaluated>>

\* The cells the model clicks: the first, the last and one in between.
ClickCells == {gridCells[1], gridCells[648]}

NoSelection == [source |-> NullCell, destination |-> NullCell]

-----------------------------------------------------------------------------
(* GridMapComponent (grid-only selection)                                  *)

GridMapComponent == [selectedCoordinates |-> NoSelection, selectionMode |-> "source"]

\* op: the call or step; cell: the cell it was given; emitted: the
\* coordinatesSelected events it emitted
NoOutput == [op |-> "none", cell |-> NullCell, emitted |-> <<>>]

\* No pure function has been called on its own yet
NotEvaluated == [fn |-> "none", args |-> <<>>, result |-> <<>>, seen |-> {}]

\* selectCell without the reset that follows the emit
GridSelectCellRetaining(g, cell) ==
  IF g.selectionMode = "source"
    THEN [ state |-> [ selectedCoordinates |->
                         [g.selectedCoordinates EXCEPT !.source = cell],
                       selectionMode |-> "destination" ],
           emitted |-> <<>> ]
    ELSE LET selected == [source |-> g.selectedCoordinates.source, destination |-> cell]
         IN  [ state |-> [selectedCoordinates |-> selected,
                          selectionMode |-> "destination"],
               emitted |-> <<selected>> ]

\* selectCell: the component after the call and the events emitted by it
GridSelectCellResult(g, cell) ==
  IF g.selectionMode = "source"
    THEN [ state |-> [ selectedCoordinates |->
                         [g.selectedCoordinates EXCEPT !.source = cell],
                       selectionMode |-> "destination" ],
           emitted |-> <<>> ]
    ELSE LET selected == [source |-> g.selectedCoordinates.source, destination |-> cell]
         IN  [ state |-> [selectedCoordinates |-> NoSelection,
                          selectionMode |-> "source"],
               emitted |-> <<selected>> ]

GridResetSelectionResult(g) ==
  [selectedCoordinates |-> NoSelection, selectionMode |-> "source"]

\* selected.source?.id === cell.id: false when the endpoint is null
SameCell(endpoint, cell) == endpoint # NullCell /\ endpoint.id = cell.id

IsCellSelectedModesSwapped(g, cell) ==
  \/ SameCell(g.selectedCoordinates.source, cell) /\ g.selectionMode = "source"
  \/ SameCell(g.selectedCoordinates.destination, cell) /\ g.selectionMode = "destination"

IsCellSelected(g, cell) ==
  \/ SameCell(g.selectedCoordinates.source, cell) /\ g.selectionMode = "destination"
  \/ SameCell(g.selectedCoordinates.destination, cell) /\ g.selectionMode = "source"

IsCellHighlighted(g, cell) ==
  \/ SameCell(g.selectedCoordinates.source, cell)
  \/ SameCell(g.selectedCoordinates.destination, cell)

\* The page instantiates the grid-only component (ngOnInit).
GridCreate ==
  /\ component = "none"
  /\ component' = "grid-map"
  /\ UNCHANGED <<wxVars, gridVars, mapVars, evaluated>>

GridSelectCell(cell) ==
  /\ component = "grid-map"
  /\ LET r == GridSelectCellResult(gridMap, cell)
     IN  /\ gridMap' = r.state
         /\ gridOutput' = [op |-> "selectCell", cell |-> cell, emitted |-> r.emitted]
  /\ gridStart' = gridMap
  /\ UNCHANGED <<wxVars, component, mapVars, gridLoop, evaluated>>

GridResetSelection ==
  /\ component = "grid-map"
  /\ gridMap' = GridResetSelectionResult(gridMap)
  /\ gridOutput' = [op |-> "resetSelection", cell |-> NullCell, emitted |-> <<>>]
  /\ gridStart' = gridMap
  /\ UNCHANGED <<wxVars, component, mapVars, gridLoop, evaluated>>

-----------------------------------------------------------------------------
(* Particle engine: one particle                                           *)

particleCount == 2500

\* Math.cos and Math.sin of a wind direction (thousandths of a degree), in
\* thousandths, at the directions of the samples the map component receives.
CosDir(d) ==
  ( 0 :> 1000 @@ 19640 :> 942 @@ 20000 :> 940 @@ 45000 :> 707 @@ 90000 :> 0 @@
    180000 :> -1000 @@ 270000 :> 0 @@ 315000 :> 707 )[d]

SinDir(d) ==
  ( 0 :> 0 @@ 19640 :> 336 @@ 20000 :> 342 @@ 45000 :> 707 @@ 90000 :> 1000 @@
    180000 :> 0 @@ 270000 :> -1000 @@ 315000 :> -707 )[d]

\* Math.sin(age * 0.02) in thousandths, for age = 1, 2, ...
GustSin(age) ==
  <<
     20, 40, 60, 80, 100, 120, 140, 159, 179, 199, 218, 238, 257,
     276, 296, 315, 333, 352, 371, 389, 408, 426, 444, 462, 479, 497,
     514, 531, 548, 565, 581, 597, 613, 629, 644, 659, 674, 689, 703,
     717, 731, 745, 758, 771, 783, 796, 808, 819, 830, 841, 852, 862,
     872, 882, 891, 900, 909, 917, 925, 932, 939, 946, 952, 958, 964,
     969, 973, 978, 982, 985, 989, 991, 994, 996, 997, 999, 1000, 1000,
     1000, 1000, 999, 998, 996, 994, 992, 989, 986, 982, 978, 974, 969,
     964, 958, 953, 946, 940, 933, 925, 917, 909, 901, 892, 883, 873,
     863, 853, 842, 831, 820, 808, 797, 784, 772, 759, 746, 732, 718,
     704, 690, 675, 661, 645, 630, 614, 598, 582, 566, 549, 533, 516,
     498, 481, 463, 445, 427, 409, 391, 372, 354, 335, 316, 297, 278,
     259, 239, 220, 200, 181, 161, 141, 121, 101, 82, 62, 42, 22,
     2, -18, -38, -58, -78, -98, -118, -138, -158, -177, -197, -217, -236,
     -256, -275, -294, -313, -332, -351, -369, -388, -406, -424, -443, -460, -478,
     -495, -513, -530, -547, -563, -580, -596, -612, -628, -643, -658, -673, -688,
     -702, -716, -730, -744, -757, -770, -782, -795, -807, -818, -830, -841, -851,
     -862, -872, -881, -890, -899, -908, -916, -924, -931, -939, -945, -952, -958,
     -963, -968, -973, -978, -982, -985, -988, -991, -994, -996, -997, -999, -999,
     -1000, -1000, -1000, -999, -998, -996, -994, -992, -989, -986, -982, -979, -974,
     -970, -964, -959, -953, -947, -940, -933, -926, -918, -910, -901, -893, -883
  >>[age]

\* The values Math.random() returns while one particle is seeded, advanced
\* and respawned.
Draw(r) == [speed |-> r, jitterX |-> r, jitterY |-> r, x |-> r, y |-> r,
            life |-> r, brightness |-> r, turbX |-> r, turbY |-> r]

ParticleDraws == {Draw(0), Draw(500), Draw(999)}

\* Math.random() * 150 + 100
NewLife(r) == r * 150 + 100000

\* Math.random() * 0.5 + 0.5
NewBrightness(r) == r \div 2 + 500

\* One particle pushed by initializeParticleSystem for the sample's wind.
SeedParticle(sample, d) ==
  LET quarter        == sample.wind.speed \div 4
      speedVariation == 800 + (d.speed * 2) \div 5
      along          == (quarter * speedVariation) \div 1000
  IN  [ x  |-> d.x * 1000,
        y  |-> d.y * 600,
        vx |-> (CosDir(sample.wind.direction) * along) \div 1000 + (d.jitterX - 500),
        vy |-> (SinDir(sample.wind.direction) * along) \div 1000 + (d.jitterY - 500),
        age |-> 0,
        life |-> NewLife(d.life),
        brightness |-> NewBrightness(d.brightness) ]

\* A wrap that stops the coordinate at the margin it crossed
WrapClamping(x, size) ==
  LET x1 == IF x < -50000 THEN -50000 ELSE x
  IN  IF x1 > size + 50000 THEN size + 50000 ELSE x1

\* The wrap of one coordinate: past the 50 px margin on one side, re-enter at
\* the margin of the other side.
Wrap(x, size) ==
  LET x1 == IF x < -50000 THEN size + 50000 ELSE x
  IN  IF x1 > size + 50000 THEN -50000 ELSE x1

\* The respawn check at the end of a particle's tick, leaving the age
RespawnKeepingAge(p, d, canvas) ==
  IF p.age * 1000 > p.life
    THEN [p EXCEPT !.x = (d.x * canvas.width) \div 1000,
                   !.y = (d.y * canvas.height) \div 1000,
                   !.life = NewLife(d.life),
                   !.brightness = NewBrightness(d.brightness)]
    ELSE p

Respawn(p, d, canvas) ==
  IF p.age * 1000 > p.life
    THEN [p EXCEPT !.x = (d.x * canvas.width) \div 1000,
                   !.y = (d.y * canvas.height) \div 1000,
                   !.age = 0,
                   !.life = NewLife(d.life),
                   !.brightness = NewBrightness(d.brightness)]
    ELSE p

\* The body of particleSystem.forEach in animate, for one particle; canvas is
\* [width, height] in thousandths of a pixel.
TickParticle(p, d, canvas) ==
  LET age  == p.age + 1
      gust == GustSin(age) \div 10
      moved == [p EXCEPT !.x = Wrap(p.x + p.vx, canvas.width),
                         !.y = Wrap(p.y + p.vy, canvas.height),
                         !.age = age,
                         !.vx = p.vx + ((d.turbX - 500) * 2) \div 5 + gust,
                         !.vy = p.vy + ((d.turbY - 500) * 2) \div 5 + gust]
  IN  Respawn(moved, d, canvas)

\* The pool this.particleSystem: its length, and the fields of its first
\* elements (every element is seeded and advanced by the same code, each with
\* its own random draws).
Followed == {1, 2}

EmptyPool == [length |-> 0, head |-> <<>>]

PushParticles(pool, sample, ds) ==
  LET room == Cardinality(Followed) - Len(pool.head)
      new  == [i \in 1..Min(room, Len(ds)) |-> SeedParticle(sample, ds[i])]
  IN  [length |-> pool.length + particleCount, head |-> pool.head \o new]

TickPool(pool, ds, canvas) ==
  [pool EXCEPT !.head = [i \in 1..Len(pool.head) |->
                           TickParticle(pool.head[i], ds[i], canvas)]]

DrawSeqs(S) == [1..Cardinality(Followed) -> S]

-----------------------------------------------------------------------------
(* Route stub of AppsContentComponent and route renderer of MapComponent   *)

\* A waypoint; coordinates in millionths of a degree.
Wp(lat, lon) == [lat |-> lat, lon |-> lon]

CannedWaypoints ==
  <<
     Wp(4960598, -9083805), Wp(4983963, -9349902), Wp(7637966, -13617811),
     Wp(10075389, -16582190), Wp(10530303, -17116978), Wp(10788834, -17270271),
     Wp(14760089, -17932970), Wp(21839373, -17905676), Wp(27694624, -15189220),
     Wp(28254229, -14958293), Wp(35719695, -12369281), Wp(43185162, -9780270),
     Wp(48644707, -5710487), Wp(48773865, -5607274), Wp(49861698, -2967768),
     Wp(50564552, 813471), Wp(50730366, 1150820), Wp(50875961, 1268320),
     Wp(51118313, 1828752), Wp(51373802, 2503295), Wp(51369904, 2743750),
     Wp(51388870, 3146918), Wp(51412243, 3232663), Wp(51408882, 3385849),
     Wp(51417088, 3517020), Wp(51406849, 3563883), Wp(51432140, 3617764),
     Wp(51443562, 3666794), Wp(51415348, 3708766), Wp(51372047, 3722498),
     Wp(51348736, 3803158), Wp(51343281, 3858948), Wp(51381176, 3951613),
     Wp(51425972, 3971000), Wp(51436588, 3980902), Wp(51437878, 3997221),
     Wp(51431892, 4011297), Wp(51401314, 4034235), Wp(51385376, 4043183),
     Wp(51371914, 4058847), Wp(51368511, 4105775), Wp(51370174, 4142039),
     Wp(51397694, 4189589), Wp(51395592, 4205682), Wp(51361317, 4222226),
     Wp(51333038, 4268489), Wp(51302448, 4280849), Wp(51285164, 4320524)
  >>

\* The segment list without the selected endpoints
RoutingDataArrayCannedOnly(coords) ==
  << [resultCode |-> 1, waypoints |-> <<CannedWaypoints>>] >>

\* routingDataArray built by AppsContentComponent.displayRoute(coords)
RoutingDataArray(coords) ==
  << [ resultCode |-> 1,
       waypoints |-> << <<Wp(coords.source.lat * 1000000, coords.source.lon * 1000000)>>
                        \o CannedWaypoints
                        \o <<Wp(coords.destination.lat * 1000000,
                                coords.destination.lon * 1000000)>> >> ] >>

-----------------------------------------------------------------------------
(* MapComponent (map-embedded selection, particle layer, route renderer)   *)

MaxInFlight == 3

MaxTimers == 1

MaxTicks == 1

\* An HTTP request in flight.  sub: the callback subscribed to it; loop: the
\* animation closure a colour callback belongs to; stalled: the connection
\* neither answers nor fails any more.
Request(sub, loop, lat, lon) ==
  [sub |-> sub, loop |-> loop, lat |-> lat, lon |-> lon, stalled |-> FALSE]

Without(seq, i) == SubSeq(seq, 1, i - 1) \o SubSeq(seq, i + 1, Len(seq))

\* map.getCenter() after setView([20, 0], 3)
Center == [lat |-> 20, lon |-> 0]

MapComponent ==
  [ map                 |-> FALSE,    \* this.map and the three layer groups exist
    currentMapMode      |-> "windy",
    currentWeatherLayer |-> "wind",
    selectedCoordinates |-> NoSelection,
    selectionMode       |-> "source",
    showingRoute        |-> FALSE,
    routeLayerGroup     |-> <<>>,     \* layers drawn by displayRoute
    viewport            |-> <<>>,     \* bounds last fitted: <<south, west, north, east>>
    weatherLayerGroup   |-> <<>>,     \* [type, loop]: particle layer, heatmap, world grid
    animationFrameId    |-> 0,        \* 0: null
    particleSystem      |-> EmptyPool,
    currentWeatherData  |-> <<>> ]    \* <<>>: null, <<sample>> otherwise

\* frames: the loops with an animation-frame callback pending; canvases: the
\* loops whose canvas is attached to the overlay pane; loops: per animation
\* closure, its realWeatherData, the size of its canvas and the number of
\* times animate has run (ran); timers: pending setTimeout callbacks of
\* AppsContentComponent.displayRoute.
Browser == [frames |-> {}, canvases |-> {}, loops |-> <<>>, timers |-> <<>>]

World == [mc |-> mc, browser |-> browser, http |-> http, emitted |-> <<>>]

\* A frame id is modelled by the loop that requested it; ids no longer
\* referenced are reused.
UsedIds(w) ==
  DOMAIN w.browser.loops \cup w.browser.frames \cup w.browser.canvases
    \cup {w.mc.animationFrameId}
    \cup {w.http[i].loop : i \in 1..Len(w.http)}
    \cup {w.mc.weatherLayerGroup[i].loop : i \in 1..Len(w.mc.weatherLayerGroup)}

FreshLoop(w) == CHOOSE n \in 1..(Cardinality(UsedIds(w)) + 1) :
                  /\ n \notin UsedIds(w)
                  /\ \A k \in 1..(n - 1) : k \in UsedIds(w)

\* Closures that no pending callback can reach any more are dropped.
Reachable(w) ==
  w.browser.frames \cup
  {w.http[i].loop : i \in {j \in 1..Len(w.http) : w.http[j].sub = "color"}}

Collect(w) ==
  [w EXCEPT !.browser.loops =
     [k \in (DOMAIN w.browser.loops \cap Reachable(w)) |-> w.browser.loops[k]]]

CancelAnimationFrame(w, id) == [w EXCEPT !.browser.frames = @ \ {id}]

\* if (this.animationFrameId) cancelAnimationFrame(this.animationFrameId)
CancelStored(w) ==
  IF w.mc.animationFrameId # 0 THEN CancelAnimationFrame(w, w.mc.animationFrameId) ELSE w

\* WeatherLayer.onRemove of the layer created for `loop`
OnRemove(w, loop) == CancelStored([w EXCEPT !.browser.canvases = @ \ {loop}])

\* weatherLayerGroup.clearLayers(): every particle layer gets onRemove
RECURSIVE RemoveLayers(_, _)
RemoveLayers(w, layers) ==
  IF layers = <<>> THEN w
  ELSE LET w1 == IF Head(layers).type = "weather" THEN OnRemove(w, Head(layers).loop)
                 ELSE w
       IN  RemoveLayers(w1, Tail(layers))

ClearWeatherLayers(w) ==
  [RemoveLayers(w, w.mc.weatherLayerGroup) EXCEPT !.mc.weatherLayerGroup = <<>>]

Layer(type, loop) == [type |-> type, loop |-> loop]

\* What a subscriber callback does with a notification.  Neither callback
\* handles an error notification.
SeedCallback(w, sample, e) ==
  [w EXCEPT !.mc.currentWeatherData = <<sample>>,
            !.mc.particleSystem = PushParticles(@, sample, e.seed)]

ColorCallback(w, loop, sample) ==
  LET w1 == [w EXCEPT !.mc.currentWeatherData = <<sample>>]
  IN  IF loop \in DOMAIN w.browser.loops
        THEN [w1 EXCEPT !.browser.loops[loop].realWeatherData = <<sample>>]
        ELSE w1

Deliver(w, sub, loop, note, e) ==
  IF note.kind # "next" THEN w
  ELSE IF sub = "seed" THEN SeedCallback(w, note.value, e)
  ELSE ColorCallback(w, loop, note.value)

\* getWeatherData(center.lat, center.lng).subscribe(callback)
Subscribe(w, sub, loop, e) ==
  IF IsSynchronous(apiKey)
    THEN Deliver(w, sub, loop,
                 NextOf(GenerateSimulatedWeatherData(Center.lat, Center.lon, e.rnd),
                        "simulated"), e)
    ELSE [w EXCEPT !.http = Append(@, Request(sub, loop, Center.lat, Center.lon))]

InitializeParticleSystem(w, e) ==
  LET w1 == [w EXCEPT !.mc.particleSystem = EmptyPool]
  IN  IF ~w1.mc.map THEN w1 ELSE Subscribe(w1, "seed", 0, e)

WeatherLayers == {"wind", "temperature", "pressure", "humidity", "cape"}

\* The colour scales; wind speed, temperature, pressure (Pa), humidity and
\* CAPE in thousandths.
GetWindSpeedColorClosedAbove(speedMs) ==
  IF speedMs <= 2000 THEN "#0066CC"
  ELSE IF speedMs <= 5000 THEN "#00CCFF"
  ELSE IF speedMs <= 10000 THEN "#00FF00"
  ELSE IF speedMs <= 15000 THEN "#FFFF00"
  ELSE IF speedMs <= 20000 THEN "#FF8800"
  ELSE IF speedMs <= 25000 THEN "#FF4400"
  ELSE "#FF0000"

GetWindSpeedColor(speedMs) ==
  IF speedMs < 2000 THEN "#0066CC"
  ELSE IF speedMs < 5000 THEN "#00CCFF"
  ELSE IF speedMs < 10000 THEN "#00FF00"
  ELSE IF speedMs < 15000 THEN "#FFFF00"
  ELSE IF speedMs < 20000 THEN "#FF8800"
  ELSE IF speedMs < 25000 THEN "#FF4400"
  ELSE "#FF0000"

GetTemperatureColor(tempC) ==
  IF tempC < -10000 THEN "#0000FF"
  ELSE IF tempC < 0 THEN "#00BFFF"
  ELSE IF tempC < 10000 THEN "#00FF00"
  ELSE IF tempC < 20000 THEN "#FFFF00"
  ELSE IF tempC < 30000 THEN "#FF8C00"
  ELSE "#FF0000"

\* pressureHpa = pressurePa / 100
GetPressureColor(pressurePa) ==
  IF pressurePa < 98000000 THEN "#FF0000"
  ELSE IF pressurePa < 100000000 THEN "#FF8800"
  ELSE IF pressurePa < 101300000 THEN "#FFFF00"
  ELSE IF pressurePa < 102700000 THEN "#00FF00"
  ELSE "#00BFFF"

GetHumidityColor(humidity) ==
  IF humidity < 30000 THEN "#FF6B6B"
  ELSE IF humidity < 50000 THEN "#FFA500"
  ELSE IF humidity < 70000 THEN "#90EE90"
  ELSE "#0047AB"

GetCapeColorTwoOranges(cape) ==
  IF cape < 500000 THEN "#00FF00"
  ELSE IF cape < 1500000 THEN "#FF8C00"
  ELSE IF cape < 2500000 THEN "#FF8C00"
  ELSE "#FF0000"

GetCapeColor(cape) ==
  IF cape < 500000 THEN "#00FF00"
  ELSE IF cape < 1500000 THEN "#FFD700"
  ELSE IF cape < 2500000 THEN "#FF8C00"
  ELSE "#FF0000"

\* speed = Math.sqrt(vx ** 2 + vy ** 2); speed < limit is decided on the squares
SpeedBelow(vx, vy, limit) == vx * vx + vy * vy < limit * limit

GetSpeedBasedColor(vx, vy) ==
  IF SpeedBelow(vx, vy, 1000) THEN "#0000FF"
  ELSE IF SpeedBelow(vx, vy, 3000) THEN "#00BFFF"
  ELSE IF SpeedBelow(vx, vy, 5000) THEN "#00FF00"
  ELSE IF SpeedBelow(vx, vy, 7000) THEN "#FFFF00"
  ELSE IF SpeedBelow(vx, vy, 10000) THEN "#FF8C00"
  ELSE "#FF0000"

\* A sample carries no cape field: weatherData.cape || 0 is 0.
GetLayerColor(layer, weatherData) ==
  CASE layer = "wind"        -> GetWindSpeedColor(weatherData.wind.speed)
    [] layer = "temperature" -> GetTemperatureColor(weatherData.temp)
    [] layer = "pressure"    -> GetPressureColor(weatherData.pressure)
    [] layer = "humidity"    -> GetHumidityColor(weatherData.rh)
    [] layer = "cape"        -> GetCapeColor(0)
    [] OTHER                 -> "#00BFFF"

\* The overlay function drawLayerOverlay calls, "none" when it draws nothing.
DrawLayerOverlay(layer, realWeatherData) ==
  IF realWeatherData = <<>> THEN "none"
  ELSE CASE layer = "temperature" -> "drawTemperatureOverlay"
         [] layer = "pressure"    -> "drawPressureOverlay"
         [] layer = "humidity"    -> "drawHumidityOverlay"
         [] layer = "cape"        -> "drawCapeOverlay"
         [] OTHER                 -> "none"

\* drawEnhancedWindStreamlines: the stroke colour of the streamlines
StreamlineColor(layer, realWeatherData) ==
  IF realWeatherData # <<>> THEN GetLayerColor(layer, realWeatherData[1])
  ELSE "rgba(150, 180, 255, 0.4)"

\* The stroke colour of a particle, computed after its velocity is updated
ParticleColor(layer, realWeatherData, particle) ==
  IF realWeatherData # <<>> THEN GetLayerColor(layer, realWeatherData[1])
  ELSE GetSpeedBasedColor(particle.vx, particle.vy)

\* What no run of animate has painted yet
NoPaint == [particles |-> <<>>, streamlines |-> "none", overlay |-> "none"]

\* One run of the closure animate of `loop`: advance and draw the particles,
\* draw the streamlines and the overlay of the layer that is current now,
\* then request the next frame.
Animate(w, loop, e) ==
  LET pool  == TickPool(w.mc.particleSystem, e.tick, w.browser.loops[loop].canvas)
      data  == w.browser.loops[loop].realWeatherData
      layer == w.mc.currentWeatherLayer
  IN  [w EXCEPT !.mc.particleSystem = pool,
                !.mc.animationFrameId = loop,
                !.browser.frames = @ \cup {loop},
                !.browser.loops[loop].ran = @ + 1,
                !.browser.loops[loop].painted =
                   [particles   |-> [i \in 1..Len(pool.head) |->
                                       ParticleColor(layer, data, pool.head[i])],
                    streamlines |-> StreamlineColor(layer, data),
                    overlay     |-> DrawLayerOverlay(layer, data)]]

\* animateWeatherVisualization with the first animate() moved into the
\* subscriber callback: the loop starts only if the sample is already there
AnimateWeatherVisualizationAwaiting(w, loop, e) ==
  LET w1 == [w EXCEPT !.browser.loops =
               [k \in (DOMAIN @ \cup {loop}) |->
                  IF k = loop
                    THEN [realWeatherData |-> <<>>, canvas |-> e.size, ran |-> 0,
                          painted |-> NoPaint]
                  ELSE @[k]]]
      w2 == Subscribe(w1, "color", loop, e)
  IN  IF w2.browser.loops[loop].realWeatherData = <<>> THEN w2
      ELSE Animate(w2, loop, e)

AnimateWeatherVisualization(w, loop, e) ==
  LET w1 == [w EXCEPT !.browser.loops =
               [k \in (DOMAIN @ \cup {loop}) |->
                  IF k = loop
                    THEN [realWeatherData |-> <<>>, canvas |-> e.size, ran |-> 0,
                          painted |-> NoPaint]
                  ELSE @[k]]]
  IN  Animate(Subscribe(w1, "color", loop, e), loop, e)

\* WeatherLayer.onAdd of the layer created for `loop`
OnAdd(w, loop, e) ==
  LET w1 == [w EXCEPT !.browser.canvases = @ \cup {loop}]
  IN  AnimateWeatherVisualization(InitializeParticleSystem(w1, e), loop, e)

AddTemperatureHeatmap(w) ==
  [w EXCEPT !.mc.weatherLayerGroup = Append(@, Layer("heatmap", 0))]

\* showWeatherVisualization without clearLayers and cancelAnimationFrame
ShowWeatherVisualizationStacking(w, e) ==
  IF ~w.mc.map THEN w
  ELSE IF ~e.ctx THEN w
  ELSE LET loop == FreshLoop(w)
           w2 == [w EXCEPT !.mc.weatherLayerGroup = Append(@, Layer("weather", loop))]
       IN  AddTemperatureHeatmap(OnAdd(w2, loop, e))

\* showWeatherVisualization testing the context only after the particle
\* system is initialised
ShowWeatherVisualizationLateCheck(w, e) ==
  IF ~w.mc.map THEN w
  ELSE LET w1 == CancelStored(ClearWeatherLayers(w))
       IN  IF ~e.ctx THEN InitializeParticleSystem(w1, e)
           ELSE LET loop == FreshLoop(w1)
                    w2 == [w1 EXCEPT !.mc.weatherLayerGroup =
                                        Append(@, Layer("weather", loop))]
                IN  AddTemperatureHeatmap(OnAdd(w2, loop, e))

ShowWeatherVisualization(w, e) ==
  IF ~w.mc.map THEN w
  ELSE LET w1 == CancelStored(ClearWeatherLayers(w))
       IN  IF ~e.ctx THEN w1
           ELSE LET loop == FreshLoop(w1)
                    w2 == [w1 EXCEPT !.mc.weatherLayerGroup =
                                        Append(@, Layer("weather", loop))]
                IN  AddTemperatureHeatmap(OnAdd(w2, loop, e))

\* showWorldMap without weatherLayerGroup.clearLayers()
ShowWorldMapKeepingLayers(w) ==
  [w EXCEPT !.mc.weatherLayerGroup = Append(@, Layer("world", 0))]

ShowWorldMap(w) ==
  [ClearWeatherLayers(w) EXCEPT !.mc.weatherLayerGroup = <<Layer("world", 0)>>]

UpdateMapVisualization(w, mode, e) ==
  IF ~w.mc.map THEN w
  ELSE IF mode = "windy" THEN ShowWeatherVisualization(w, e)
  ELSE ShowWorldMap(w)

\* AppsContentComponent.onCoordinatesSelected, the listener of the map's
\* coordinatesSelected output: schedules displayRoute(coords) on a timer.
OnCoordinatesSelected(w, coords) ==
  IF coords.source = NullCell \/ coords.destination = NullCell THEN w
  ELSE [w EXCEPT !.browser.timers = Append(@, coords)]

Emit(w, coords) ==
  OnCoordinatesSelected([w EXCEPT !.emitted = Append(@, coords)], coords)

\* selectCell with the reset of the grid-only component after the emit
SelectCellResetting(w, cell, mode, e) ==
  LET current == w.mc.selectedCoordinates
      w1 == IF w.mc.selectionMode = "source"
              THEN [w EXCEPT !.mc.selectedCoordinates =
                                [source |-> cell, destination |-> current.destination],
                             !.mc.selectionMode = "destination"]
              ELSE LET selected == [source |-> current.source, destination |-> cell]
                       w0 == Emit(w, selected)
                   IN  [w0 EXCEPT !.mc.selectedCoordinates = NoSelection,
                                  !.mc.selectionMode = "source"]
  IN  UpdateMapVisualization(w1, mode, e)

\* selectCell emitting on the first click of a pair as well
SelectCellEmittingAlways(w, cell, mode, e) ==
  LET current == w.mc.selectedCoordinates
      w1 == IF w.mc.selectionMode = "source"
              THEN LET selected == [source |-> cell, destination |-> current.destination]
                       w0 == [w EXCEPT !.mc.selectedCoordinates = selected,
                                       !.mc.selectionMode = "destination"]
                   IN  Emit(w0, selected)
              ELSE LET selected == [source |-> current.source, destination |-> cell]
                       w0 == [w EXCEPT !.mc.selectedCoordinates = selected]
                   IN  [Emit(w0, selected) EXCEPT !.mc.showingRoute = TRUE]
  IN  UpdateMapVisualization(w1, mode, e)

\* selectCell going back to picking a source once the pair is complete
SelectCellAlternating(w, cell, mode, e) ==
  LET current == w.mc.selectedCoordinates
      w1 == IF w.mc.selectionMode = "source"
              THEN [w EXCEPT !.mc.selectedCoordinates =
                                [source |-> cell, destination |-> current.destination],
                             !.mc.selectionMode = "destination"]
              ELSE LET selected == [source |-> current.source, destination |-> cell]
                       w0 == [w EXCEPT !.mc.selectedCoordinates = selected,
                                       !.mc.selectionMode = "source"]
                   IN  [Emit(w0, selected) EXCEPT !.mc.showingRoute = TRUE]
  IN  UpdateMapVisualization(w1, mode, e)

\* selectCell(cell); mode: the value of the mapMode input
SelectCell(w, cell, mode, e) ==
  LET current == w.mc.selectedCoordinates
      w1 == IF w.mc.selectionMode = "source"
              THEN [w EXCEPT !.mc.selectedCoordinates =
                                [source |-> cell, destination |-> current.destination],
                             !.mc.selectionMode = "destination"]
              ELSE LET selected == [source |-> current.source, destination |-> cell]
                       w0 == [w EXCEPT !.mc.selectedCoordinates = selected]
                   IN  [Emit(w0, selected) EXCEPT !.mc.showingRoute = TRUE]
  IN  UpdateMapVisualization(w1, mode, e)

\* resetSelection leaving selectionMode as it is
ResetSelectionKeepingMode(w) ==
  [w EXCEPT !.mc.selectedCoordinates = NoSelection,
            !.mc.showingRoute = FALSE,
            !.mc.routeLayerGroup = <<>>]

ResetSelection(w) ==
  [w EXCEPT !.mc.selectedCoordinates = NoSelection,
            !.mc.selectionMode = "source",
            !.mc.showingRoute = FALSE,
            !.mc.routeLayerGroup = <<>>]

\* The layers displayRoute adds for one segment
\* What one round of the forEach adds to the layer group.  A value that
\* may be null or undefined is <<>> when it is, <<value>> when it is not:
\* routingData.waypoints is such a value.
\* The round without the test of waypoints.length:
SegmentLayersUnguarded(routingData, segmentIndex, count) ==
  LET wps == IF routingData.waypoints = <<>> THEN <<>> ELSE routingData.waypoints[1]
  IN  <<[kind |-> "polyline", points |-> wps]>>

SegmentLayers(routingData, segmentIndex, count) ==
  IF routingData.waypoints = <<>> THEN <<>>
  ELSE
  LET wps == routingData.waypoints[1]
      n   == Len(wps)
  IN  IF n = 0 THEN <<>>
      ELSE (IF segmentIndex = 0
              THEN <<[kind |-> "source", points |-> <<wps[1]>>]>> ELSE <<>>)
        \o (IF segmentIndex = count - 1
              THEN <<[kind |-> "destination", points |-> <<wps[n]>>]>> ELSE <<>>)
        \o <<[kind |-> "polyline", points |-> wps]>>
        \o [j \in 1..((n + 2) \div 5) |->
              [kind |-> "waypoint", points |-> <<wps[5 * (j - 1) + 2]>>]]

RECURSIVE RouteLayers(_, _)
RouteLayers(arr, segmentIndex) ==
  IF segmentIndex >= Len(arr) THEN <<>>
  ELSE SegmentLayers(arr[segmentIndex + 1], segmentIndex, Len(arr))
         \o RouteLayers(arr, segmentIndex + 1)

\* layerGroup.getBounds(): <<south, west, north, east>>, <<>> when not valid
GetBounds(layers) ==
  LET pts == UNION {{layers[i].points[j] : j \in 1..Len(layers[i].points)} :
                      i \in 1..Len(layers)}
      lats == {q.lat : q \in pts}
      lons == {q.lon : q \in pts}
      Least(S) == CHOOSE x \in S : \A y \in S : x <= y
      Most(S)  == CHOOSE x \in S : \A y \in S : x >= y
  IN  IF pts = {} THEN <<>> ELSE <<Least(lats), Least(lons), Most(lats), Most(lons)>>

\* displayRoute(routingDataArray); the argument is <<>> when it is null or
\* undefined, <<list>> otherwise.
DisplayRoute(w, routingDataArray) ==
  IF ~w.mc.map THEN w
  ELSE LET cleared == [w EXCEPT !.mc.routeLayerGroup = <<>>]
       IN  IF routingDataArray = <<>> THEN cleared
           ELSE IF Len(routingDataArray[1]) = 0 THEN cleared
           ELSE LET layers == RouteLayers(routingDataArray[1], 0)
                    bounds == GetBounds(layers)
                IN  [cleared EXCEPT !.mc.routeLayerGroup = layers,
                                    !.mc.viewport = IF bounds # <<>> THEN bounds ELSE @]

-----------------------------------------------------------------------------
(* Steps of the page that hosts MapComponent                               *)

\* What the environment decides during one step: the random draws of the
\* simulator (rnd) and of the followed particles (seed, tick), whether
\* canvas.getContext('2d') succeeds (ctx), the size of the overlay pane (size).
Env(R, PD, C, S) == [rnd : R, seed : DrawSeqs(PD), tick : DrawSeqs(PD), ctx : C, size : S]

PaneSizes == {[width |-> 800000, height |-> 500000]}

MapEnv == Env({NoNoise}, {Draw(500)}, {TRUE}, PaneSizes)

MapOutcomes ==
  { [kind |-> "failure"],
    [kind |-> "response",
     body |-> Body(<< <<7000, 0>> >>, << <<-3500>> >>, << <<55000>> >>,
                   << <<101200000>> >>, << <<9000>> >>)] }

\* The step ends in the world w.
Commit(w, op, cell) ==
  LET c == Collect(w)
  IN  /\ Len(c.http) <= MaxInFlight
      /\ Len(c.browser.timers) <= MaxTimers
      /\ mc' = c.mc
      /\ browser' = c.browser
      /\ http' = c.http
      /\ mapOutput' = [op |-> op, cell |-> cell, emitted |-> c.emitted]

\* The page instantiates MapComponent: constructor (the effect is created
\* and scheduled for its first run) and ngOnInit.
MapCreate ==
  /\ component = "none"
  /\ component' = "map"
  /\ effectPending' = TRUE
  /\ UNCHANGED <<apiKey, http, wxCall, wxReceived, wxLog, gridVars,
                 mapMode, mc, browser, mapOutput, evaluated>>

\* The timer of ngAfterViewInit fires: initializeMap.
InitializeMap(E) ==
  /\ component = "map"
  /\ ~mc.map
  /\ \E e \in E :
       Commit(UpdateMapVisualization([World EXCEPT !.mc.map = TRUE], mapMode, e),
              "initializeMap", NullCell)
  /\ UNCHANGED <<apiKey, wxCall, wxReceived, wxLog, component, gridVars,
                 mapMode, effectPending, evaluated>>

\* A click on a rectangle or a marker of a cell: the click handlers are
\* registered by addGridToMap and by the visualisations, on the initialised
\* map.
MapSelectCell(cell, E) ==
  /\ component = "map"
  /\ mc.map
  /\ \E e \in E : Commit(SelectCell(World, cell, mapMode, e), "selectCell", cell)
  /\ UNCHANGED <<apiKey, wxCall, wxReceived, wxLog, component, gridVars,
                 mapMode, effectPending, evaluated>>

MapResetSelection ==
  /\ component = "map"
  /\ Commit(ResetSelection(World), "resetSelection", NullCell)
  /\ UNCHANGED <<apiKey, wxCall, wxReceived, wxLog, component, gridVars,
                 mapMode, effectPending, evaluated>>

\* The parent sets the mapMode input; the effect is scheduled.
SetMapMode(mode) ==
  /\ component = "map"
  /\ mode # mapMode
  /\ mapMode' = mode
  /\ effectPending' = TRUE
  /\ Commit(World, "setMapMode", NullCell)
  /\ UNCHANGED <<apiKey, wxCall, wxReceived, wxLog, component, gridVars, evaluated>>

\* currentWeatherLayer.set(layer).  An effect run that activated the Wind
\* layer has read the signal in the first run of animate, so the write
\* schedules the effect.
SetWeatherLayer(layer) ==
  /\ component = "map"
  /\ layer # mc.currentWeatherLayer
  /\ effectPending' = TRUE
  /\ Commit([World EXCEPT !.mc.currentWeatherLayer = layer], "setWeatherLayer", NullCell)
  /\ UNCHANGED <<apiKey, wxCall, wxReceived, wxLog, component, gridVars, mapMode, evaluated>>

\* The effect without its guard mode !== this.currentMapMode
EffectUnguarded(w, mode, e) ==
  UpdateMapVisualization([w EXCEPT !.mc.currentMapMode = mode], mode, e)

\* The effect registered by the constructor runs.
Effect(w, mode, e) ==
  IF w.mc.map /\ mode # w.mc.currentMapMode
    THEN UpdateMapVisualization([w EXCEPT !.mc.currentMapMode = mode], mode, e)
    ELSE w

RunEffect(E) ==
  /\ component = "map"
  /\ effectPending
  /\ effectPending' = FALSE
  /\ \E e \in E : Commit(Effect(World, mapMode, e), "effect", NullCell)
  /\ UNCHANGED <<apiKey, wxCall, wxReceived, wxLog, component, gridVars, mapMode, evaluated>>

\* A caller hands displayRoute a segment list.
MapDisplayRoute(routingDataArray) ==
  /\ component = "map"
  /\ LET c == Collect(DisplayRoute(World, routingDataArray))
     IN  /\ mc' = c.mc
         /\ browser' = c.browser
         /\ http' = c.http
  /\ mapOutput' = [op |-> "displayRoute", cell |-> NullCell, emitted |-> <<>>,
                   routingDataArray |-> routingDataArray]
  /\ UNCHANGED <<apiKey, wxCall, wxReceived, wxLog, component, gridVars,
                 mapMode, effectPending, evaluated>>

\* The page removes the map component.  The class implements OnInit and
\* AfterViewInit only: no hook of the component runs.  Angular destroys the
\* effect with the component's injector; the Leaflet map, its layers, the
\* canvas and the requested animation frame are left as they are.
MapDestroy ==
  /\ component = "map"
  /\ component' = "destroyed"
  /\ effectPending' = FALSE
  /\ Commit(World, "destroy", NullCell)
  /\ UNCHANGED <<apiKey, wxCall, wxReceived, wxLog, gridVars, mapMode, evaluated>>

\* The browser runs the pending animation-frame callback of `loop`.
AnimationFrame(loop, E) ==
  /\ loop \in browser.frames
  /\ browser.loops[loop].ran <= MaxTicks
  /\ \E e \in E :
       Commit(Animate([World EXCEPT !.browser.frames = @ \ {loop}], loop, e),
              "animate", NullCell)
  /\ UNCHANGED <<apiKey, wxCall, wxReceived, wxLog, component, gridVars,
                 mapMode, effectPending, evaluated>>

\* The HTTP request of a callback of the map completes, with a response or
\* with a failure.
HttpCompletes(i, outcome, E) ==
  /\ i \in 1..Len(http)
  /\ http[i].sub \in {"seed", "color"}
  /\ ~http[i].stalled
  /\ \E e \in E :
       LET note == PipeOutcome(outcome, http[i].lat, http[i].lon, e.rnd)
       IN  Commit(Deliver([World EXCEPT !.http = Without(@, i)],
                          http[i].sub, http[i].loop, note, e),
                  "httpCompletes", NullCell)
  /\ UNCHANGED <<apiKey, wxCall, wxReceived, wxLog, component, gridVars,
                 mapMode, effectPending, evaluated>>

\* The 100 ms timer of AppsContentComponent.displayRoute fires.
TimerFires ==
  /\ browser.timers # <<>>
  /\ LET coords == Head(browser.timers)
         w      == [World EXCEPT !.browser.timers = Tail(@)]
     IN  Commit(DisplayRoute(w, <<RoutingDataArray(coords)>>), "displayRoute", NullCell)
  /\ UNCHANGED <<apiKey, wxCall, wxReceived, wxLog, component, gridVars,
                 mapMode, effectPending, evaluated>>

-----------------------------------------------------------------------------
(* A stand-alone subscriber of getWeatherData                              *)

NoOutcome == [kind |-> "none"]

NoCall == [state |-> "none", lat |-> 0, lon |-> 0, outcome |-> NoOutcome]

\* The log keeps the two latest samples the simulator delivered, with the
\* coordinate and the random draws they were computed from.
Logged(log, note, lat, lon, rnd) ==
  LET entry == [lat |-> lat, lon |-> lon, rnd |-> rnd, sample |-> note.value]
  IN  IF note.kind = "next" /\ note.path = "simulated"
        THEN IF Len(log) < 2 THEN Append(log, entry) ELSE <<log[2], entry>>
        ELSE log

\* Everything but the key of the service
Created ==
  /\ http = <<>>
  /\ wxCall = NoCall
  /\ wxReceived = <<>>
  /\ wxLog = <<>>
  /\ component = "none"
  /\ gridMap = GridMapComponent
  /\ gridOutput = NoOutput
  /\ gridStart = GridMapComponent
  /\ gridLoop = NoGridLoop
  /\ evaluated = NotEvaluated
  /\ mapMode = "windy"
  /\ effectPending = FALSE
  /\ mc = MapComponent
  /\ browser = Browser
  /\ mapOutput = NoOutput

\* A build with a key configured in place of the placeholder
WxInit == apiKey \in {Placeholder, "configured-key"} /\ Created

\* getWeatherData(lat, lon).subscribe(...) by the stand-alone subscriber.
WxGetWeatherData(lat, lon) ==
  /\ wxCall.state # "pending"
  /\ IF IsSynchronous(apiKey)
       THEN \E rnd \in RandomDraws :
              LET note == NextOf(GenerateSimulatedWeatherData(lat, lon, rnd), "simulated")
              IN  /\ wxCall' = [state |-> "resolved", lat |-> lat, lon |-> lon,
                                outcome |-> NoOutcome]
                  /\ wxReceived' = <<note>>
                  /\ wxLog' = Logged(wxLog, note, lat, lon, rnd)
                  /\ http' = http
       ELSE /\ Len(http) < MaxInFlight
            /\ wxCall' = [state |-> "pending", lat |-> lat, lon |-> lon,
                          outcome |-> NoOutcome]
            /\ wxReceived' = <<>>
            /\ http' = Append(http, Request("standalone", 0, lat, lon))
            /\ wxLog' = wxLog
  /\ UNCHANGED <<apiKey, component, gridVars, mapVars, evaluated>>

\* The HTTP request of the stand-alone subscriber completes, with a response
\* or with a failure.
WxHttpCompletes(i, outcome) ==
  /\ i \in 1..Len(http)
  /\ http[i].sub = "standalone"
  /\ ~http[i].stalled
  /\ \E rnd \in RandomDraws :
       LET note == PipeOutcome(outcome, http[i].lat, http[i].lon, rnd)
       IN  /\ wxReceived' = Append(wxReceived, note)
           /\ wxLog' = Logged(wxLog, note, http[i].lat, http[i].lon, rnd)
  /\ wxCall' = [wxCall EXCEPT !.state = "resolved", !.outcome = outcome]
  /\ http' = Without(http, i)
  /\ UNCHANGED <<apiKey, component, gridVars, mapVars, evaluated>>

\* The connection of a request stalls: http.get is given no timeout, so the
\* request stays in flight.
WxHttpStalls(i) ==
  /\ i \in 1..Len(http)
  /\ http[i].sub = "standalone"
  /\ ~http[i].stalled
  /\ http' = [http EXCEPT ![i].stalled = TRUE]
  /\ UNCHANGED <<apiKey, wxCall, wxReceived, wxLog, component, gridVars, mapVars, evaluated>>

WxNext ==
  \/ \E lat \in QueryLats, lon \in QueryLons : WxGetWeatherData(lat, lon)
  \/ \E i \in 1..MaxInFlight, outcome \in HttpOutcomes : WxHttpCompletes(i, outcome)
  \/ \E i \in 1..MaxInFlight : WxHttpStalls(i)

SpecWeather == WxInit /\ [][WxNext]_vars

\* The transport delivers the response or the failure of every request whose
\* connection has not stalled.
FairSpecWeather == SpecWeather /\ WF_vars(WxNext)

\* The repository's build: the key is the placeholder.
Init == apiKey = Placeholder /\ Created

Next ==
  \/ GridCreate
  \/ \E cell \in ClickCells : GridSelectCell(cell)
  \/ GridResetSelection
  \/ MapCreate
  \/ InitializeMap(MapEnv)
  \/ \E cell \in ClickCells : MapSelectCell(cell, MapEnv)
  \/ MapResetSelection
  \/ \E mode \in {"windy", "world"} : SetMapMode(mode)
  \/ RunEffect(MapEnv)
  \/ \E loop \in browser.frames : AnimationFrame(loop, MapEnv)
  \/ TimerFires

Spec == Init /\ [][Next]_vars

\* A build with a key configured: the fetches of the map are HTTP requests
\* that complete later, in any order.
RemoteInit == apiKey = "configured-key" /\ Created

\* The layer is activated by the creation of the map and by the mode effect;
\* the grid is left unclicked.
RemoteNext ==
  \/ MapCreate
  \/ InitializeMap(MapEnv)
  \/ \E mode \in {"windy", "world"} : SetMapMode(mode)
  \/ RunEffect(MapEnv)
  \/ \E loop \in browser.frames : AnimationFrame(loop, MapEnv)
  \/ \E i \in 1..MaxInFlight, outcome \in MapOutcomes : HttpCompletes(i, outcome, MapEnv)

SpecRemote == RemoteInit /\ [][RemoteNext]_vars

\* The map under Angular's scheduling.  The mapMode input is written by the
\* parent's change detection and the effect is flushed by the same change
\* detection, before the browser dispatches the next click, timer or
\* animation frame: while the effect is pending no other handler runs.
SwitchNext ==
  \/ MapCreate
  \/ RunEffect(MapEnv)
  \/ ~effectPending /\ InitializeMap(MapEnv)
  \/ ~effectPending /\ \E cell \in ClickCells : MapSelectCell(cell, MapEnv)
  \/ ~effectPending /\ MapResetSelection
  \/ ~effectPending /\ \E mode \in {"windy", "world"} : SetMapMode(mode)
  \/ ~effectPending /\ \E loop \in browser.frames : AnimationFrame(loop, MapEnv)
  \/ ~effectPending /\ TimerFires

SpecSwitch == Init /\ [][SwitchNext]_vars

\* The life of the map component on the page, from creation to removal.
LifecycleNext ==
  \/ MapCreate
  \/ RunEffect(MapEnv)
  \/ ~effectPending /\ InitializeMap(MapEnv)
  \/ ~effectPending /\ \E cell \in ClickCells : MapSelectCell(cell, MapEnv)
  \/ ~effectPending /\ \E mode \in {"windy", "world"} : SetMapMode(mode)
  \/ ~effectPending /\ \E loop \in browser.frames : AnimationFrame(loop, MapEnv)
  \/ ~effectPending /\ TimerFires
  \/ ~effectPending /\ MapDestroy

SpecLifecycle == Init /\ [][LifecycleNext]_vars

\* The Wind layer under changes of the active weather layer, with the
\* placeholder key or with a configured key.
LayersInit == apiKey \in {Placeholder, "configured-key"} /\ Created

LayersNext ==
  \/ MapCreate
  \/ InitializeMap(MapEnv)
  \/ \E layer \in WeatherLayers : SetWeatherLayer(layer)
  \/ RunEffect(MapEnv)
  \/ \E loop \in browser.frames : AnimationFrame(loop, MapEnv)
  \/ \E i \in 1..MaxInFlight, outcome \in MapOutcomes : HttpCompletes(i, outcome, MapEnv)

SpecLayers == LayersInit /\ [][LayersNext]_vars

\* The map in a browser that may refuse the 2-D context of a new canvas,
\* with the placeholder key or with a configured key.  With a configured
\* key the behaviours end before a response arrives: the requests issued
\* stay in flight.
CanvasEnv == Env({NoNoise}, {Draw(500)}, {TRUE, FALSE}, PaneSizes)

CanvasNext ==
  \/ MapCreate
  \/ RunEffect(CanvasEnv)
  \/ ~effectPending /\ InitializeMap(CanvasEnv)
  \/ ~effectPending /\ \E cell \in ClickCells : MapSelectCell(cell, CanvasEnv)
  \/ ~effectPending /\ \E mode \in {"windy", "world"} : SetMapMode(mode)
  \/ ~effectPending /\ \E loop \in browser.frames : AnimationFrame(loop, CanvasEnv)
  \/ ~effectPending /\ TimerFires

SpecCanvas == LayersInit /\ [][CanvasNext]_vars

\* The route renderer under arbitrary arguments: a missing list, and the
\* lists of up to MaxSegments segments whose waypoints are missing, empty,
\* a leg of two points or a leg of seven points.
MaxSegments == 3

ShortLeg == <<Wp(85000000, -175000000), Wp(40000000, -60000000)>>

LongLeg ==
  <<Wp(35719695, -12369281), Wp(43185162, -9780270), Wp(48644707, -5710487),
    Wp(50564552, 813471), Wp(51118313, 1828752), Wp(51412243, 3232663),
    Wp(-85000000, 175000000)>>

Segments ==
  { [resultCode |-> 1, waypoints |-> waypoints] :
      waypoints \in {<<>>, << <<>> >>, <<ShortLeg>>, <<LongLeg>>} }

SegmentLists == UNION { [1..n -> Segments] : n \in 0..MaxSegments }

RouteArguments == {<<>>} \cup { <<list>> : list \in SegmentLists }

RouteNext ==
  \/ MapCreate
  \/ RunEffect(MapEnv)
  \/ InitializeMap(MapEnv)
  \/ \E routingDataArray \in RouteArguments : MapDisplayRoute(routingDataArray)

SpecRoute == Init /\ [][RouteNext]_vars

\* Grid generation by either component, one loop round at a time.
GridLoopNext ==
  \/ \E c \in {"grid-map", "map"} : GenerateGridBegin(c)
  \/ GenerateGridPush
  \/ GenerateGridSet

SpecGrid == Init /\ [][GridLoopNext]_vars

\* The engine in mid-flight.  A particle lives at least 100 ticks, so the
\* behaviours start with the layer running and the followed particles at the
\* end of a life of 100, 175 or 249.85 ticks (one tick before its last age,
\* or at it), in the middle of the canvas or at the right margin.
MidFlight ==
  { [x |-> x, y |-> 250000, vx |-> 1500, vy |-> -800,
     age |-> a[1], life |-> a[2], brightness |-> 750] :
      x \in {400000, 849000},
      a \in {<<99, NewLife(0)>>, <<100, NewLife(0)>>, <<174, NewLife(500)>>,
             <<249, NewLife(999)>>} }

ParticleEnv == Env({NoNoise}, ParticleDraws, {TRUE}, PaneSizes)

ParticlesInit ==
  /\ apiKey = Placeholder
  /\ http = <<>>
  /\ wxCall = NoCall
  /\ wxReceived = <<>>
  /\ wxLog = <<>>
  /\ component = "map"
  /\ gridMap = GridMapComponent
  /\ gridOutput = NoOutput
  /\ gridStart = GridMapComponent
  /\ gridLoop = NoGridLoop
  /\ evaluated = NotEvaluated
  /\ mapMode = "windy"
  /\ effectPending = FALSE
  /\ mapOutput = NoOutput
  /\ \E e \in MapEnv, head \in DrawSeqs(MidFlight) :
       LET created == [mc |-> [MapComponent EXCEPT !.map = TRUE],
                       browser |-> Browser, http |-> <<>>, emitted |-> <<>>]
           running == Collect(UpdateMapVisualization(created, "windy", e))
       IN  /\ mc = [running.mc EXCEPT !.particleSystem.head = head]
           /\ browser = running.browser

ParticlesNext == \E loop \in browser.frames : AnimationFrame(loop, ParticleEnv)

SpecParticles == ParticlesInit /\ [][ParticlesNext]_vars

-----------------------------------------------------------------------------
(* Seeding of the pool from a remote sample                                *)

\* Overlay panes smaller and larger than the 1000 x 600 area of the seeding
SeedPaneSizes ==
  {[width |-> 800000, height |-> 500000], [width |-> 1200000, height |-> 700000]}

SeedEnv == Env({NoNoise}, ParticleDraws, {TRUE}, SeedPaneSizes)

\* The map with a configured key: the pool is seeded when the request of
\* initializeParticleSystem completes, later than the first tick.
SeedingNext ==
  \/ MapCreate
  \/ RunEffect(SeedEnv)
  \/ ~effectPending /\ InitializeMap(SeedEnv)
  \/ ~effectPending /\ \E i \in 1..MaxInFlight, outcome \in MapOutcomes :
                         HttpCompletes(i, outcome, SeedEnv)

SpecSeeding == RemoteInit /\ [][SeedingNext]_vars

-----------------------------------------------------------------------------
(* Particles at the edges of the canvas                                    *)

\* Particles about to cross a margin of the 800 x 500 canvas on either side,
\* and particles well inside it; none is at the end of its life.
EdgeFlight ==
  { [x |-> h[1], y |-> v[1], vx |-> h[2], vy |-> v[2],
     age |-> 10, life |-> NewLife(500), brightness |-> 750] :
      h \in {<<849000, 1500>>, <<-49000, -1500>>, <<400000, 1500>>},
      v \in {<<250000, -800>>, <<-49500, -800>>, <<549500, 800>>} }

EdgesInit ==
  /\ apiKey = Placeholder
  /\ http = <<>>
  /\ wxCall = NoCall
  /\ wxReceived = <<>>
  /\ wxLog = <<>>
  /\ component = "map"
  /\ gridMap = GridMapComponent
  /\ gridOutput = NoOutput
  /\ gridStart = GridMapComponent
  /\ gridLoop = NoGridLoop
  /\ evaluated = NotEvaluated
  /\ mapMode = "windy"
  /\ effectPending = FALSE
  /\ mapOutput = NoOutput
  /\ \E e \in MapEnv, head \in DrawSeqs(EdgeFlight) :
       LET created == [mc |-> [MapComponent EXCEPT !.map = TRUE],
                       browser |-> Browser, http |-> <<>>, emitted |-> <<>>]
           running == Collect(UpdateMapVisualization(created, "windy", e))
       IN  /\ mc = [running.mc EXCEPT !.particleSystem.head = head]
           /\ browser = running.browser

SpecEdges == EdgesInit /\ [][ParticlesNext]_vars

-----------------------------------------------------------------------------
(* The colour scales, called on their own                                  *)

ColorFunctions ==
  {"getWindSpeedColor", "getTemperatureColor", "getPressureColor",
   "getHumidityColor", "getCapeColor"}

\* The scale a name stands for
ColorOf(fn, x) ==
  CASE fn = "getWindSpeedColor"   -> GetWindSpeedColor(x)
    [] fn = "getTemperatureColor" -> GetTemperatureColor(x)
    [] fn = "getPressureColor"    -> GetPressureColor(x)
    [] fn = "getHumidityColor"    -> GetHumidityColor(x)
    [] fn = "getCapeColor"        -> GetCapeColor(x)

\* Arguments in thousandths: every threshold of the scale, the value just
\* below it, and values well inside the first and the last interval.
ColorArguments(fn) ==
  CASE fn = "getWindSpeedColor" ->
         {0, 1000, 1999, 2000, 4999, 5000, 9999, 10000, 14999, 15000,
          19999, 20000, 24999, 25000, 30000}
    [] fn = "getTemperatureColor" ->
         {-25000, -10001, -10000, -1, 0, 9999, 10000, 19999, 20000,
          29999, 30000, 45000}
    [] fn = "getPressureColor" ->
         {95000000, 97999999, 98000000, 99999999, 100000000, 101299999,
          101300000, 102699999, 102700000, 105000000}
    [] fn = "getHumidityColor" ->
         {0, 29999, 30000, 49999, 50000, 69999, 70000, 100000}
    [] fn = "getCapeColor" ->
         {0, 499999, 500000, 1499999, 1500000, 2499999, 2500000, 4000000}

\* One call of a colour scale.  A behaviour calls one scale over and over;
\* seen collects the colours it has returned.
EvaluateColor(fn, x) ==
  /\ component = "none"
  /\ evaluated.fn \in {"none", fn}
  /\ evaluated' = [fn     |-> fn,
                   args   |-> <<x>>,
                   result |-> <<ColorOf(fn, x)>>,
                   seen   |-> evaluated.seen \cup {ColorOf(fn, x)}]
  /\ UNCHANGED <<wxVars, component, gridVars, mapVars>>

ColorsNext ==
  \E fn \in ColorFunctions : \E x \in ColorArguments(fn) : EvaluateColor(fn, x)

SpecColors == Init /\ [][ColorsNext]_vars

-----------------------------------------------------------------------------
(* isCellOnRoute, called on its own                                        *)

\* isCellOnRoute that takes the source for the lower corner
IsCellOnRouteOrdered(cell, source, destination) ==
  IF source = NullCell \/ destination = NullCell THEN FALSE
  ELSE /\ cell.lat >= source.lat
       /\ cell.lat <= destination.lat
       /\ cell.lon >= source.lon
       /\ cell.lon <= destination.lon

IsCellOnRoute(cell, source, destination) ==
  IF source = NullCell \/ destination = NullCell THEN FALSE
  ELSE LET minLat == Min(source.lat, destination.lat)
           maxLat == Max(source.lat, destination.lat)
           minLon == Min(source.lon, destination.lon)
           maxLon == Max(source.lon, destination.lon)
       IN  /\ cell.lat >= minLat
           /\ cell.lat <= maxLat
           /\ cell.lon >= minLon
           /\ cell.lon <= maxLon

\* Cells of three rows and three columns of the grid, and the last cell
RouteCells ==
  {gridCells[1], gridCells[2], gridCells[3], gridCells[37], gridCells[38],
   gridCells[75], gridCells[648]}

\* One call isCellOnRoute(cell, source, destination); a null endpoint is NullCell
EvaluateOnRoute(cell, source, destination) ==
  /\ component = "none"
  /\ evaluated.fn \in {"none", "isCellOnRoute"}
  /\ evaluated' = [fn     |-> "isCellOnRoute",
                   args   |-> <<cell, source, destination>>,
                   result |-> <<IsCellOnRoute(cell, source, destination)>>,
                   seen   |-> {}]
  /\ UNCHANGED <<wxVars, component, gridVars, mapVars>>

OnRouteNext ==
  \E cell \in RouteCells, source, destination \in RouteCells \cup {NullCell} :
    EvaluateOnRoute(cell, source, destination)

SpecOnRoute == Init /\ [][OnRouteNext]_vars

-----------------------------------------------------------------------------
(* Claims about the selection                                              *)

Pair(c1, c2) == [source |-> c1, destination |-> c2]

Complete(sel) == sel.source # NullCell /\ sel.destination # NullCell

\* C1: grid-only component.  A selectCell(c1) call made in Source mode, the
\* state being {null, null, Source}, leaves {c1, null, Destination} and
\* emits nothing; the selectCell(c2) call made in Destination mode emits
\* exactly one event (source c1, destination c2) and leaves
\* {null, null, Source}; so every pair of clicks repeats the cycle.
C1_GridSelectionCycle ==
  gridOutput.op = "selectCell" =>
    IF gridStart.selectionMode = "source"
      THEN /\ gridStart.selectedCoordinates = NoSelection
           /\ gridMap.selectedCoordinates = Pair(gridOutput.cell, NullCell)
           /\ gridMap.selectionMode = "destination"
           /\ gridOutput.emitted = <<>>
      ELSE /\ gridStart.selectedCoordinates.source # NullCell
           /\ gridOutput.emitted =
                <<Pair(gridStart.selectedCoordinates.source, gridOutput.cell)>>
           /\ gridMap.selectedCoordinates = NoSelection
           /\ gridMap.selectionMode = "source"

C1_Witness ==
  /\ gridOutput.op = "selectCell"
  /\ gridStart.selectionMode = "destination"
  /\ gridOutput.emitted = <<Pair(gridCells[1], gridCells[648])>>
  /\ gridMap = GridMapComponent

\* C2: map-embedded component.  The selectCell(c2) call that completes a
\* pair leaves source = c1 and destination = c2; a completed pair is left as
\* it is by every tick, mode switch, effect run and route display, its source
\* is cleared by resetSelection only, and resetSelection leaves
\* {null, null, Source}, showingRoute false and an empty route layer.
C2_PairRetainedUntilReset ==
  [][ LET sel == mc.selectedCoordinates
          op  == mapOutput'.op
      IN  /\ (op = "selectCell" /\ mc.selectionMode = "destination") =>
                /\ mc'.selectedCoordinates = Pair(sel.source, mapOutput'.cell)
                /\ Complete(mc'.selectedCoordinates)
          /\ (Complete(sel) /\ op \notin {"selectCell", "resetSelection"}) =>
                /\ mc'.selectedCoordinates = sel
                /\ mc'.selectionMode = mc.selectionMode
          /\ (Complete(sel) /\ op = "selectCell") =>
                mc'.selectedCoordinates.source = sel.source
          /\ op = "resetSelection" =>
                /\ mc'.selectedCoordinates = NoSelection
                /\ mc'.selectionMode = "source"
                /\ mc'.showingRoute = FALSE
                /\ mc'.routeLayerGroup = <<>>
    ]_vars

\* A tick runs while the completed pair and its displayed route are retained.
C2_Witness ==
  /\ mapOutput.op = "animate"
  /\ mc.selectedCoordinates = Pair(gridCells[1], gridCells[648])
  /\ mc.showingRoute
  /\ mc.routeLayerGroup # <<>>
  /\ mapMode = "windy"

\* C3: in both components, between calls, selectionMode is Source exactly
\* when no source cell is selected.
C3_SourceModeIffNoSource ==
  /\ gridMap.selectionMode = "source" <=> gridMap.selectedCoordinates.source = NullCell
  /\ mc.selectionMode = "source" <=> mc.selectedCoordinates.source = NullCell

\* The map-embedded component after the reset of a completed pair.
C3_Witness ==
  /\ mapOutput.op = "resetSelection"
  /\ mc.selectionMode = "source"
  /\ mc.selectedCoordinates.source = NullCell
  /\ mc.viewport # MapComponent.viewport

\* C4: in both components every emitted coordinatesSelected event carries a
\* source and a destination, and a step emits an event only when it is a
\* selectCell call made in Destination mode, which emits exactly one.
C4_EmittedOnlyInDestinationMode ==
  [][ /\ \A i \in 1..Len(gridOutput'.emitted) : Complete(gridOutput'.emitted[i])
      /\ \A i \in 1..Len(mapOutput'.emitted) : Complete(mapOutput'.emitted[i])
      /\ gridOutput'.emitted # <<>> =>
            /\ gridOutput'.op = "selectCell"
            /\ gridMap.selectionMode = "destination"
            /\ Len(gridOutput'.emitted) = 1
      /\ mapOutput'.emitted # <<>> =>
            /\ mapOutput'.op = "selectCell"
            /\ mc.selectionMode = "destination"
            /\ Len(mapOutput'.emitted) = 1
    ]_vars

\* The third click on the map: the destination is replaced and emitted again.
C4_Witness ==
  /\ mapOutput.op = "selectCell"
  /\ mapOutput.emitted = <<Pair(gridCells[648], gridCells[648])>>
  /\ Len(browser.timers) = 1
  /\ mc.routeLayerGroup # <<>>

-----------------------------------------------------------------------------
(* Claims about the weather provider                                       *)

Samples == {wxReceived[i].value : i \in {j \in 1..Len(wxReceived) : wxReceived[j].kind = "next"}}

\* C5: getWeatherData never delivers an error.  With the placeholder key no
\* request is issued and one simulated sample is delivered; with a key, an
\* HTTP failure or an exception in parseWindyResponse is replaced by one
\* simulated sample.  A resolved call has delivered exactly one sample.
C5_NeverAnError ==
  /\ \A i \in 1..Len(wxReceived) : wxReceived[i].kind = "next"
  /\ Len(wxReceived) <= 1
  /\ wxCall.state = "resolved" => Len(wxReceived) = 1
  /\ IsSynchronous(apiKey) =>
       /\ http = <<>>
       /\ wxCall.state # "pending"
       /\ wxCall.state = "resolved" => wxReceived[1].path = "simulated"
  /\ ( /\ wxCall.state = "resolved"
       /\ \/ wxCall.outcome.kind = "failure"
          \/ wxCall.outcome.kind = "response" /\ wxCall.outcome.body.isNull )
     => wxReceived[1].path = "simulated"

C5_Witness ==
  /\ ~IsSynchronous(apiKey)
  /\ wxCall.state = "resolved"
  /\ wxCall.outcome.kind = "response"
  /\ wxCall.outcome.body.isNull
  /\ Len(wxReceived) = 1
  /\ wxReceived[1].path = "simulated"

\* C6: every getWeatherData call eventually delivers a sample, also when the
\* remote request neither succeeds nor fails.
C6_EveryCallDelivers == (wxCall.state = "pending") ~> (Len(wxReceived) >= 1)

\* C7: the wind direction of every delivered sample lies in [0, 360), on the
\* simulated path and on the remote-parse path.
C7_DirectionInRange ==
  \A s \in Samples : 0 <= s.wind.direction /\ s.wind.direction < 360000

\* C8: with every noise term 0 the simulated sample for (0, 0) has
\* temperature 20, wind speed 3, pressure 101325 and relative humidity 60;
\* two evaluations from the same coordinate and the same draws deliver the
\* same sample.
C8_NoNoiseSample ==
  /\ \A i \in 1..Len(wxLog) :
       (wxLog[i].lat = 0 /\ wxLog[i].lon = 0 /\ wxLog[i].rnd = NoNoise) =>
         /\ wxLog[i].sample.temp = 20000
         /\ wxLog[i].sample.wind.speed = 3000
         /\ wxLog[i].sample.pressure = 101325000
         /\ wxLog[i].sample.rh = 60000
  /\ \A i, j \in 1..Len(wxLog) :
       ( /\ wxLog[i].lat = wxLog[j].lat
         /\ wxLog[i].lon = wxLog[j].lon
         /\ wxLog[i].rnd = wxLog[j].rnd )
       => wxLog[i].sample = wxLog[j].sample

C8_Witness ==
  /\ Len(wxLog) = 2
  /\ wxLog[1].lat = 0 /\ wxLog[1].lon = 0 /\ wxLog[1].rnd = NoNoise
  /\ wxLog[2].lat = 0 /\ wxLog[2].lon = 0 /\ wxLog[2].rnd = NoNoise

-----------------------------------------------------------------------------
(* Claims about the particle engine                                        *)

InLifeRange(p) ==
  /\ 100000 <= p.life /\ p.life < 250000
  /\ 500 <= p.brightness /\ p.brightness < 1000

\* C9: after the respawn check of a tick every particle has 0 <= age <= life;
\* a particle whose age exceeded its life during the tick has age 0, a life
\* in [100, 250) and a brightness in [0.5, 1.0); any other particle keeps its
\* life and is one tick older.
C9_AgeWithinLife ==
  [][ mapOutput'.op = "animate" =>
        /\ mc'.particleSystem.length = mc.particleSystem.length
        /\ Len(mc'.particleSystem.head) = Len(mc.particleSystem.head)
        /\ \A i \in 1..Len(mc.particleSystem.head) :
             LET p == mc.particleSystem.head[i]
                 q == mc'.particleSystem.head[i]
             IN  /\ 0 <= q.age
                 /\ q.age * 1000 <= q.life
                 /\ InLifeRange(q)
                 /\ IF (p.age + 1) * 1000 > p.life
                      THEN q.age = 0
                      ELSE q.age = p.age + 1 /\ q.life = p.life
    ]_vars

\* A tick has respawned the first particle with the largest draw and left the
\* second at the end of its life, its age equal to its life.
C9_Witness ==
  /\ mapOutput.op = "animate"
  /\ mc.particleSystem.head[1].age = 0
  /\ mc.particleSystem.head[1].life = NewLife(999)
  /\ mc.particleSystem.head[1].brightness = NewBrightness(999)
  /\ mc.particleSystem.head[2].age * 1000 = mc.particleSystem.head[2].life

\* C11: at most one animation-frame callback is pending and at most one
\* weather canvas is attached; the pending callback is the one whose id the
\* component stores and belongs to the attached canvas; and an activation
\* made in this state has cancelled the callback and removed the canvas
\* before it starts its loop.
C11_OneAnimationLoop ==
  /\ Cardinality(browser.frames) <= 1
  /\ Cardinality(browser.canvases) <= 1
  /\ browser.frames \subseteq {mc.animationFrameId}
  /\ browser.frames \subseteq browser.canvases
  /\ LET cleared == CancelStored(ClearWeatherLayers(World))
     IN  cleared.browser.frames = {} /\ cleared.browser.canvases = {}

\* The effect re-activates the layer after selectCell calls had activated it.
C11_Witness ==
  /\ mapOutput.op = "effect"
  /\ mc.currentMapMode = "windy"
  /\ Complete(mc.selectedCoordinates)
  /\ Cardinality(browser.frames) = 1
  /\ browser.frames = browser.canvases
  /\ mc.particleSystem.length = particleCount

\* C12: once the effect has run for a switch to World on the initialised
\* map, no animation-frame callback is pending and no weather canvas is
\* attached, the world grid is what the weather layer group shows, and this
\* stays so while the mode is World; a tick runs only while the mode is Wind.
C12_WorldTearsDown ==
  [][ /\ (mc'.map /\ mapMode' = "world" /\ ~effectPending')
          => /\ browser'.frames = {}
             /\ browser'.canvases = {}
             /\ mc'.weatherLayerGroup = <<Layer("world", 0)>>
      /\ (mapOutput'.op = "animate") => (mapMode = "windy" /\ mapMode' = "windy")
    ]_vars

\* The effect has just torn down a layer whose loop had ticked.
C12_Witness ==
  /\ mapOutput.op = "effect"
  /\ mapMode = "world"
  /\ mc.currentMapMode = "world"
  /\ mc.animationFrameId # 0
  /\ mc.particleSystem.length = particleCount
  /\ \E i \in DOMAIN mc.particleSystem.head : mc.particleSystem.head[i].age > 0
  /\ browser.frames = {}
  /\ browser.canvases = {}

\* C13: after the map component is destroyed no animation-frame callback
\* is pending, no weather canvas is attached and no tick has run.
C13_DestroyStopsLoop ==
  component = "destroyed" =>
    /\ browser.frames = {}
    /\ browser.canvases = {}
    /\ mapOutput.op # "animate"

\* C14: a change of the active weather layer, and the effect run it
\* schedules, leave the particle pool, the canvas, the pending callback and
\* every other field of the component and of the browser unchanged and
\* issue no weather query; and a tick paints the particles and the
\* streamlines with the colour scale, and draws the overlay, of the layer
\* that is active when it runs (the speed scale, the fixed streamline colour
\* and no overlay while the loop has no sample; no overlay for wind).
C14_LayerChangeRepaintsOnly ==
  [][ /\ (mc'.currentWeatherLayer # mc.currentWeatherLayer \/ mapOutput'.op = "effect")
          => /\ browser' = browser
             /\ http' = http
             /\ mc' = [mc EXCEPT !.currentWeatherLayer = mc'.currentWeatherLayer]
      /\ (mapOutput'.op = "animate")
          => \A loop \in browser'.frames :
               LET painted == browser'.loops[loop].painted
                   data    == browser.loops[loop].realWeatherData
                   layer   == mc.currentWeatherLayer
               IN  /\ mc'.currentWeatherLayer = layer
                   /\ painted.overlay # "none" <=> (data # <<>> /\ layer # "wind")
                   /\ data # <<>> =>
                        /\ painted.streamlines = GetLayerColor(layer, data[1])
                        /\ \A i \in DOMAIN painted.particles :
                             painted.particles[i] = painted.streamlines
                        /\ layer = "temperature" =>
                             /\ painted.streamlines = GetTemperatureColor(data[1].temp)
                             /\ painted.overlay = "drawTemperatureOverlay"
                        /\ layer = "pressure" =>
                             /\ painted.streamlines = GetPressureColor(data[1].pressure)
                             /\ painted.overlay = "drawPressureOverlay"
                        /\ layer = "humidity" =>
                             /\ painted.streamlines = GetHumidityColor(data[1].rh)
                             /\ painted.overlay = "drawHumidityOverlay"
                        /\ layer = "cape" => painted.overlay = "drawCapeOverlay"
                        /\ layer = "wind" =>
                             painted.streamlines = GetWindSpeedColor(data[1].wind.speed)
                   /\ data = <<>> =>
                        /\ painted.streamlines = "rgba(150, 180, 255, 0.4)"
                        /\ \A i \in DOMAIN painted.particles :
                             painted.particles[i] =
                               GetSpeedBasedColor(mc'.particleSystem.head[i].vx,
                                                  mc'.particleSystem.head[i].vy)
    ]_vars

\* The layer has just been changed to pressure while the loop is running on
\* a seeded pool whose last tick painted with the humidity scale and overlay.
C14_Witness ==
  /\ mapOutput.op = "setWeatherLayer"
  /\ mc.currentWeatherLayer = "pressure"
  /\ mc.particleSystem.length = particleCount
  /\ \E loop \in browser.frames :
       /\ loop \in browser.canvases
       /\ browser.loops[loop].realWeatherData # <<>>
       /\ browser.loops[loop].painted.streamlines =
            GetHumidityColor(browser.loops[loop].realWeatherData[1].rh)
       /\ browser.loops[loop].painted.overlay = "drawHumidityOverlay"

\* C15: an activation of the Wind layer that cannot obtain the 2-D context
\* (it leaves the weather layer group of the initialised map empty) issues
\* no weather request, delivers no sample, seeds no particle, attaches no
\* canvas and schedules no animation-frame callback: after it no callback is
\* pending and no canvas is attached, and the requests in flight, the pool,
\* the sample kept and the stored callback id are what they were before.
C15_NoContextAborts ==
  [][ ( /\ mapOutput'.op \in {"initializeMap", "selectCell", "effect"}
        /\ mc'.map
        /\ mc'.weatherLayerGroup = <<>> )
      => /\ browser'.frames = {}
         /\ browser'.canvases = {}
         /\ http' = http
         /\ mc'.particleSystem = mc.particleSystem
         /\ mc'.currentWeatherData = mc.currentWeatherData
         /\ mc'.animationFrameId = mc.animationFrameId
    ]_vars

\* The first activation, by initializeMap, was refused the context.
C15_Witness ==
  /\ mapOutput.op = "initializeMap"
  /\ mapMode = "windy"
  /\ mc.map
  /\ mc.weatherLayerGroup = <<>>
  /\ mc.particleSystem = EmptyPool
  /\ mc.currentWeatherData = <<>>
  /\ http = <<>>
  /\ browser.frames = {}
  /\ browser.canvases = {}

-----------------------------------------------------------------------------
(* Claims about the grid                                                   *)

\* C20: the cells generateGrid has pushed are numbered 1, 2, ... in the
\* order pushed, row by row: the cell with id i is in row (i - 1) \div 36
\* and column (i - 1) % 36, so id = row * 36 + col + 1, with
\* lat = 85 - 10 * row and lon = -175 + 10 * col; the grid it sets has
\* exactly 648 = 18 * 36 cells; and the grid-only and the map-embedded
\* component set the same sequence, the one the selection is modelled on.
C20_GridCells ==
  LET cells == gridLoop.cells
  IN  /\ \A i \in 1..Len(cells) :
           /\ cells[i].id = i
           /\ cells[i].row = (i - 1) \div 36
           /\ cells[i].col = (i - 1) % 36
           /\ cells[i].row \in 0..17
           /\ cells[i].id = cells[i].row * 36 + cells[i].col + 1
           /\ cells[i].lat = 85 - 10 * cells[i].row
           /\ cells[i].lon = -175 + 10 * cells[i].col
      /\ gridLoop.set =>
           /\ Len(cells) = 648
           /\ Len(cells) = gridRows * gridCols
           /\ cells = gridCells
           /\ cells = [i \in 1..648 |-> GridMapGridCell((i - 1) \div 36, (i - 1) % 36, i)]
           /\ cells = [i \in 1..648 |-> MapGridCell((i - 1) \div 36, (i - 1) % 36, i)]

\* The grid-only component has set its grid; its last cell is cell 648 at
\* (-85, 175).
C20_Witness ==
  /\ gridLoop.component = "grid-map"
  /\ gridLoop.set
  /\ Len(gridLoop.cells) = 648
  /\ gridLoop.cells[648] = [id |-> 648, lat |-> -85, lon |-> 175, row |-> 17, col |-> 35]
  /\ gridLoop.cells[1] = [id |-> 1, lat |-> 85, lon |-> -175, row |-> 0, col |-> 0]

-----------------------------------------------------------------------------
(* Claims about the route renderer                                         *)

HasWaypoints(routingData) ==
  /\ routingData.waypoints # <<>>
  /\ routingData.waypoints[1] # <<>>

\* The argument is a missing list, an empty list or a list of segments none
\* of which has a waypoint.
NoWaypoints(routingDataArray) ==
  \/ routingDataArray = <<>>
  \/ \A i \in 1..Len(routingDataArray[1]) : ~HasWaypoints(routingDataArray[1][i])

\* The step is a call of displayRoute on the initialised map.
DisplayRouteCall ==
  /\ mc.map
  /\ mapOutput'.op = "displayRoute"
  /\ "routingDataArray" \in DOMAIN mapOutput'

OfKind(layers, kind) == {i \in 1..Len(layers) : layers[i].kind = kind}

\* C16: a call of displayRoute whose argument is a missing list, an empty
\* list or a list of segments without waypoints leaves no polyline and no
\* marker in the route layer group and leaves the viewport as it was.
C16_NothingDrawnWithoutWaypoints ==
  [][ (DisplayRouteCall /\ NoWaypoints(mapOutput'.routingDataArray))
      => /\ mc'.routeLayerGroup = <<>>
         /\ mc'.viewport = mc.viewport
         /\ browser' = browser
    ]_vars

\* A list of two segments, one with missing and one with empty waypoints,
\* was handed over after a route had been fitted.
C16_Witness ==
  /\ mapOutput.op = "displayRoute"
  /\ "routingDataArray" \in DOMAIN mapOutput
  /\ mapOutput.routingDataArray =
       << << [resultCode |-> 1, waypoints |-> <<>>],
             [resultCode |-> 1, waypoints |-> << <<>> >>] >> >>
  /\ mc.map
  /\ mc.routeLayerGroup = <<>>
  /\ mc.viewport = GetBounds(<<[kind |-> "polyline", points |-> LongLeg]>>)

\* C17: a call of displayRoute whose argument has no waypoints leaves the
\* contents of the route layer group and the viewport as they were.
C17_NoWaypointsIsNoOp ==
  [][ (DisplayRouteCall /\ NoWaypoints(mapOutput'.routingDataArray))
      => /\ mc'.routeLayerGroup = mc.routeLayerGroup
         /\ mc'.viewport = mc.viewport
    ]_vars

\* C18: after a call of displayRoute with a list in which some segment has
\* waypoints, the route layer group holds exactly one source marker, at the
\* first waypoint of the first segment, exactly one destination marker, at
\* the last waypoint of the last segment, and one polyline per segment that
\* has waypoints.
C18_EndpointMarkers ==
  ( /\ mc.map
    /\ mapOutput.op = "displayRoute"
    /\ "routingDataArray" \in DOMAIN mapOutput
    /\ ~NoWaypoints(mapOutput.routingDataArray) )
  => LET list     == mapOutput.routingDataArray[1]
         layers   == mc.routeLayerGroup
         first    == list[1]
         last     == list[Len(list)]
     IN  /\ Cardinality(OfKind(layers, "source")) = 1
         /\ Cardinality(OfKind(layers, "destination")) = 1
         /\ HasWaypoints(first)
         /\ HasWaypoints(last)
         /\ \A i \in OfKind(layers, "source") :
              layers[i].points = <<first.waypoints[1][1]>>
         /\ \A i \in OfKind(layers, "destination") :
              layers[i].points = <<last.waypoints[1][Len(last.waypoints[1])]>>
         /\ Cardinality(OfKind(layers, "polyline"))
              = Cardinality({j \in 1..Len(list) : HasWaypoints(list[j])})

\* The position of a cell as a waypoint
CellPoint(cell) == Wp(cell.lat * 1000000, cell.lon * 1000000)

\* bounds = <<south, west, north, east>> cover the point
Covers(bounds, point) ==
  /\ bounds # <<>>
  /\ bounds[1] <= point.lat /\ point.lat <= bounds[3]
  /\ bounds[2] <= point.lon /\ point.lon <= bounds[4]

\* C19: every pair the map emits is complete and is queued for the route
\* timer; and when the timer hands the list built from a queued pair (s, d)
\* to displayRoute, the route drawn is not empty, its source marker and the
\* first point of its polyline are at s, its destination marker and the
\* last point of its polyline are at d, and the viewport fitted covers s
\* and d.
C19_RouteJoinsSelection ==
  [][ /\ (mapOutput'.emitted # <<>>)
          => /\ Len(mapOutput'.emitted) = 1
             /\ Complete(mapOutput'.emitted[1])
             /\ browser'.timers = Append(browser.timers, mapOutput'.emitted[1])
      /\ (mapOutput'.op = "displayRoute" /\ browser.timers # <<>>)
          => LET s      == CellPoint(Head(browser.timers).source)
                 d      == CellPoint(Head(browser.timers).destination)
                 layers == mc'.routeLayerGroup
             IN  /\ browser'.timers = Tail(browser.timers)
                 /\ layers # <<>>
                 /\ \E i \in OfKind(layers, "source") : layers[i].points = <<s>>
                 /\ \E i \in OfKind(layers, "destination") : layers[i].points = <<d>>
                 /\ Cardinality(OfKind(layers, "polyline")) = 1
                 /\ \A i \in OfKind(layers, "polyline") :
                      /\ Head(layers[i].points) = s
                      /\ layers[i].points[Len(layers[i].points)] = d
                 /\ Covers(mc'.viewport, s)
                 /\ Covers(mc'.viewport, d)
    ]_vars

\* The route from cell 1 (85, -175) to cell 648 (-85, 175) has been drawn
\* and fitted.
C19_Witness ==
  /\ mapOutput.op = "displayRoute"
  /\ \E i \in OfKind(mc.routeLayerGroup, "source") :
       mc.routeLayerGroup[i].points = <<CellPoint(gridCells[1])>>
  /\ \E i \in OfKind(mc.routeLayerGroup, "destination") :
       mc.routeLayerGroup[i].points = <<CellPoint(gridCells[648])>>
  /\ mc.viewport = <<-85000000, -175000000, 85000000, 175000000>>

-----------------------------------------------------------------------------
(* Claims about the particle engine (continued)                            *)

\* C10: the pool holds 0 particles or exactly particleCount, however layer
\* activations, completions of the weather fetches and ticks interleave.
C10_PoolSizeFixed == mc.particleSystem.length \in {0, particleCount}

-----------------------------------------------------------------------------
(* Claims about the colour scales                                          *)

WindSpeedBoundaries == {2000, 5000, 10000, 15000, 20000, 25000}

WindSpeedPalette ==
  <<"#0066CC", "#00CCFF", "#00FF00", "#FFFF00", "#FF8800", "#FF4400", "#FF0000">>

\* The range of the scale being called has been seen in full
RangeSeen ==
  /\ evaluated.fn \in ColorFunctions
  /\ \A x \in ColorArguments(evaluated.fn) : ColorOf(evaluated.fn, x) \in evaluated.seen

\* C21: getWindSpeedColor is a monotonic step function with seven buckets
\* split at 2, 5, 10, 15, 20 and 25 m/s.  The bucket of a speed is the number
\* of boundaries at or below it, so a boundary value falls in the bucket above
\* it; 1 m/s is deep blue (#0066CC) and 30 m/s is red (#FF0000).
C21_WindSpeedBuckets ==
  evaluated.fn = "getWindSpeedColor" =>
    LET speed  == evaluated.args[1]
        bucket == 1 + Cardinality({b \in WindSpeedBoundaries : b <= speed})
    IN  /\ evaluated.result = <<WindSpeedPalette[bucket]>>
        /\ speed = 1000 => evaluated.result = <<"#0066CC">>
        /\ speed = 30000 => evaluated.result = <<"#FF0000">>
        /\ Cardinality(evaluated.seen) <= 7

\* A boundary value has been coloured, after the value just below it
C21_Witness ==
  /\ evaluated.fn = "getWindSpeedColor"
  /\ evaluated.args = <<2000>>
  /\ evaluated.result = <<"#00CCFF">>
  /\ "#0066CC" \in evaluated.seen

\* C22 as stated: once every colour of a scale has been returned, the scale
\* has between 5 and 7 distinct colours.
C22_FiveToSevenColors ==
  RangeSeen => Cardinality(evaluated.seen) \in 5..7

\* C22 as amended: the range of each scale has between 4 and 7 distinct
\* colours: 7 for wind speed, 6 for temperature, 5 for pressure, and 4 each
\* for humidity and CAPE.  Every call returns one colour of the scale, and the
\* colour depends on the argument alone.
C22_FourToSevenColors ==
  /\ evaluated.fn \in ColorFunctions =>
       /\ Len(evaluated.result) = 1
       /\ evaluated.result[1] \in evaluated.seen
       /\ Cardinality(evaluated.seen) <= 7
  /\ RangeSeen =>
       Cardinality(evaluated.seen) =
         CASE evaluated.fn = "getWindSpeedColor"   -> 7
           [] evaluated.fn = "getTemperatureColor" -> 6
           [] evaluated.fn = "getPressureColor"    -> 5
           [] evaluated.fn = "getHumidityColor"    -> 4
           [] evaluated.fn = "getCapeColor"        -> 4

\* The whole range of the CAPE scale has been returned
C22_Witness ==
  /\ evaluated.fn = "getCapeColor"
  /\ RangeSeen
  /\ Cardinality(evaluated.seen) = 4

-----------------------------------------------------------------------------
(* Claims about the cell predicates of the grid-only component             *)

\* The cells of the grid
AllCells == {gridCells[i] : i \in 1..Len(gridCells)}

\* C23: between operations of the grid-only component, isCellHighlighted(cell)
\* is true exactly when the cell is the source or the destination, whatever
\* the mode; isCellSelected(cell) is true exactly when the cell is the source
\* and the mode is destination; the destination is null, and the two
\* predicates agree on every cell.
C23_CellPredicates ==
  component = "grid-map" =>
    /\ gridMap.selectedCoordinates.destination = NullCell
    /\ \A cell \in AllCells :
         /\ IsCellHighlighted(gridMap, cell) <=>
              (cell = gridMap.selectedCoordinates.source
                 \/ cell = gridMap.selectedCoordinates.destination)
         /\ IsCellSelected(gridMap, cell) <=>
              (cell = gridMap.selectedCoordinates.source
                 /\ gridMap.selectionMode = "destination")
         /\ IsCellSelected(gridMap, cell) <=> IsCellHighlighted(gridMap, cell)

\* A first click has made its cell both selected and highlighted, and no other
C23_Witness ==
  /\ component = "grid-map"
  /\ gridOutput.op = "selectCell"
  /\ IsCellSelected(gridMap, gridOutput.cell)
  /\ IsCellHighlighted(gridMap, gridOutput.cell)
  /\ \E cell \in AllCells : ~IsCellHighlighted(gridMap, cell)

-----------------------------------------------------------------------------
(* Claims about the animation loop and the weather fetch                   *)

\* The loops whose closure animate ran in the step
Ticked ==
  {loop \in DOMAIN browser'.loops :
     \/ loop \notin DOMAIN browser.loops
     \/ browser'.loops[loop].ran > browser.loops[loop].ran}

\* What a tick paints while its loop has no sample
FallbackPaint(loop) ==
  LET painted == browser'.loops[loop].painted
  IN  /\ painted.overlay = "none"
      /\ painted.streamlines = "rgba(150, 180, 255, 0.4)"
      /\ Len(painted.particles) = Len(mc'.particleSystem.head)
      /\ \A i \in DOMAIN painted.particles :
           painted.particles[i] =
             GetSpeedBasedColor(mc'.particleSystem.head[i].vx,
                                mc'.particleSystem.head[i].vy)

\* C24: the animation loop never waits for a weather fetch.  A loop has run
\* its first tick by the end of the step that created it, also when its
\* fetch is still in flight; a tick of a loop that has no sample paints the
\* particles with the speed scale and the streamlines with the fallback, and
\* draws no overlay; the completion of a fetch runs no tick and leaves what
\* the earlier ticks painted, and a tick that runs after it paints with the
\* scale of the active layer.
C24_LoopNeverWaits ==
  [][ /\ \A loop \in DOMAIN browser'.loops : browser'.loops[loop].ran >= 1
      /\ \A loop \in DOMAIN browser'.loops \ DOMAIN browser.loops :
           /\ browser'.loops[loop].ran = 1
           /\ loop \in browser'.frames
           /\ ~IsSynchronous(apiKey) =>
                /\ browser'.loops[loop].realWeatherData = <<>>
                /\ \E i \in 1..Len(http') :
                     http'[i].sub = "color" /\ http'[i].loop = loop
      /\ \A loop \in Ticked :
           IF browser'.loops[loop].realWeatherData = <<>>
             THEN FallbackPaint(loop)
             ELSE browser'.loops[loop].painted.streamlines =
                    GetLayerColor(mc.currentWeatherLayer,
                                  browser'.loops[loop].realWeatherData[1])
      /\ mapOutput'.op = "httpCompletes" =>
           /\ Ticked = {}
           /\ browser'.frames = browser.frames
           /\ \A loop \in DOMAIN browser'.loops :
                /\ loop \in DOMAIN browser.loops
                /\ browser'.loops[loop].painted = browser.loops[loop].painted
    ]_vars

\* A fetch has completed between two ticks: the loop holds the sample, its
\* next tick is pending, and what is painted is still the fallback of the
\* ticks that ran without a sample.
C24_Witness ==
  /\ mapOutput.op = "httpCompletes"
  /\ ~IsSynchronous(apiKey)
  /\ \E loop \in browser.frames :
       /\ browser.loops[loop].realWeatherData # <<>>
       /\ browser.loops[loop].ran = 2
       /\ browser.loops[loop].painted.streamlines = "rgba(150, 180, 255, 0.4)"
       /\ browser.loops[loop].painted.overlay = "none"
       /\ Len(browser.loops[loop].painted.particles) > 0

-----------------------------------------------------------------------------
(* Claims about isCellOnRoute                                              *)

\* v lies between a and b, whichever of the two is smaller
Between(v, a, b) == (a <= v /\ v <= b) \/ (b <= v /\ v <= a)

\* C25: isCellOnRoute(cell, s, d) is true exactly when both endpoints are
\* non-null and the cell's latitude and longitude lie between those of the
\* endpoints.  It is false when an endpoint is null, it gives the same answer
\* with the endpoints exchanged, and it is true of either endpoint.
C25_OnRouteRectangle ==
  evaluated.fn = "isCellOnRoute" =>
    LET cell   == evaluated.args[1]
        s      == evaluated.args[2]
        d      == evaluated.args[3]
        result == evaluated.result[1]
    IN  /\ result <=> /\ s # NullCell
                      /\ d # NullCell
                      /\ Between(cell.lat, s.lat, d.lat)
                      /\ Between(cell.lon, s.lon, d.lon)
        /\ (s = NullCell \/ d = NullCell) => ~result
        /\ result <=> IsCellOnRoute(cell, d, s)
        /\ (s # NullCell /\ d # NullCell /\ cell \in {s, d}) => result

\* A cell strictly inside the rectangle, asked with the source as the
\* south-east corner and the destination as the north-west corner
C25_Witness ==
  /\ evaluated.fn = "isCellOnRoute"
  /\ evaluated.args = <<gridCells[38], gridCells[75], gridCells[1]>>
  /\ evaluated.result = <<TRUE>>

-----------------------------------------------------------------------------
(* Claims about the seeding and the wrap of the particles                  *)

\* The canvases attached to the overlay pane whose loop is alive
LiveCanvases == browser.canvases \cap DOMAIN browser.loops

\* C26: seeding places every particle of the pool inside the canvas: after
\* the step that seeds the pool, each seeded particle has 0 <= x < width and
\* 0 <= y < height of the canvas, life in [100, 250), brightness in
\* [0.5, 1.0) and age 0.
C26_SeededInsideCanvas ==
  (mapOutput.op = "httpCompletes" /\ mc.particleSystem.head # <<>>) =>
    \A i \in DOMAIN mc.particleSystem.head :
      LET p == mc.particleSystem.head[i]
      IN  /\ p.age = 0
          /\ p.life >= 100000 /\ p.life < 250000
          /\ p.brightness >= 500 /\ p.brightness < 1000
          /\ \A loop \in LiveCanvases :
               /\ 0 <= p.x /\ p.x < browser.loops[loop].canvas.width
               /\ 0 <= p.y /\ p.y < browser.loops[loop].canvas.height

\* C27: particles wrap instead of bouncing.  After a tick every particle has
\* -50 <= x <= canvas.width + 50 and -50 <= y <= canvas.height + 50; a
\* particle that the tick moved past the 50 px margin on one side is at the
\* margin of the opposite side, any other is where its velocity took it; and
\* the velocity differs from the one before the tick by the turbulence and
\* the gust only (at most 0.3 per component), wrapped or not.
C27_ParticlesWrap ==
  [][ mapOutput'.op = "animate" =>
        \A loop \in DOMAIN browser'.loops :
          browser'.loops[loop].ran > browser.loops[loop].ran =>
            LET canvas == browser'.loops[loop].canvas
                right  == canvas.width + 50000
                bottom == canvas.height + 50000
            IN  \A i \in 1..Len(mc.particleSystem.head) :
                  LET p == mc.particleSystem.head[i]
                      q == mc'.particleSystem.head[i]
                  IN  /\ -50000 <= q.x /\ q.x <= right
                      /\ -50000 <= q.y /\ q.y <= bottom
                      /\ Abs(q.vx - p.vx) <= 300
                      /\ Abs(q.vy - p.vy) <= 300
                      /\ (p.age + 1) * 1000 <= p.life =>
                           /\ q.x = IF p.x + p.vx < -50000 THEN right
                                    ELSE IF p.x + p.vx > right THEN -50000
                                    ELSE p.x + p.vx
                           /\ q.y = IF p.y + p.vy < -50000 THEN bottom
                                    ELSE IF p.y + p.vy > bottom THEN -50000
                                    ELSE p.y + p.vy
    ]_vars

\* A tick has wrapped the first particle from the right edge to the left
\* margin and the second from the left edge to the right margin, the first
\* also from the top to the bottom margin and the second from the bottom to
\* the top margin, each still moving the way it left.
C27_Witness ==
  /\ mapOutput.op = "animate"
  /\ Len(mc.particleSystem.head) = 2
  /\ mc.particleSystem.head[1].x = -50000
  /\ mc.particleSystem.head[1].vx > 0
  /\ mc.particleSystem.head[1].y = 550000
  /\ mc.particleSystem.head[1].vy < 0
  /\ mc.particleSystem.head[2].x = 850000
  /\ mc.particleSystem.head[2].vx < 0
  /\ mc.particleSystem.head[2].y = -50000
  /\ mc.particleSystem.head[2].vy > 0

-----------------------------------------------------------------------------
(* Claims about the selection (continued)                                  *)

\* C28: map-embedded component.  While a pair is complete the mode is
\* destination; a selectCell(c) on a complete pair keeps the source, makes c
\* the destination, leaves the mode at destination and emits exactly one
\* event, the pair of the unchanged source and c; and a source, once chosen,
\* is given up in a resetSelection only, which leaves no selection.
C28_DestinationReplaced ==
  [][ LET sel == mc.selectedCoordinates
          op  == mapOutput'.op
      IN  /\ Complete(sel) => mc.selectionMode = "destination"
          /\ (Complete(sel) /\ op = "selectCell") =>
                /\ mc'.selectedCoordinates = Pair(sel.source, mapOutput'.cell)
                /\ mc'.selectionMode = "destination"
                /\ mapOutput'.emitted = <<Pair(sel.source, mapOutput'.cell)>>
          /\ (Complete(sel) /\ op # "resetSelection") =>
                /\ Complete(mc'.selectedCoordinates)
                /\ mc'.selectionMode = "destination"
          /\ (sel.source # NullCell /\ mc'.selectedCoordinates.source # sel.source) =>
                /\ op = "resetSelection"
                /\ mc'.selectedCoordinates = NoSelection
    ]_vars

\* A selectCell on cell 1 has completed and emitted the pair (cell 1,
\* cell 1) while the map displays the route of the pair (cell 1, cell 648).
C28_Witness ==
  /\ mapOutput.op = "selectCell"
  /\ mapOutput.cell = gridCells[1]
  /\ mapOutput.emitted = <<Pair(gridCells[1], gridCells[1])>>
  /\ mc.selectedCoordinates = Pair(gridCells[1], gridCells[1])
  /\ mc.selectionMode = "destination"
  /\ \E i \in OfKind(mc.routeLayerGroup, "destination") :
       mc.routeLayerGroup[i].points = <<CellPoint(gridCells[648])>>

-----------------------------------------------------------------------------
(* Claims about the mode switch (continued)                                *)

\* The layer types the weather layer group holds
Shown == {mc.weatherLayerGroup[i].type : i \in 1..Len(mc.weatherLayerGroup)}

\* C29: once the map is initialised and the effect of the latest mode change
\* has run, what is shown corresponds to the mapMode input: the particle
\* layer and the heatmap for windy, the plain world grid for world.
C29_DisplayFollowsMode ==
  (mc.map /\ ~effectPending) =>
    /\ mapMode = "windy" => Shown = {"weather", "heatmap"}
    /\ mapMode = "world" => Shown = {"world"}

-----------------------------------------------------------------------------
(* Claims about the route timer                                            *)

\* C30: after resetSelection the route layer stays empty until another pair
\* of cells is completed: while the selection is not a complete pair, no
\* route is drawn, also when a timer set for an earlier pair fires.
C30_NoRouteAfterReset ==
  ~Complete(mc.selectedCoordinates) => mc.routeLayerGroup = <<>>

====
